---- MODULE Spec2Model ----
(***************************************************************************)
(* NamespaceSet / OrderedNamespaceSet of basyx.aas.model.base, with the    *)
(* attribute setters that reindex a member (id_short, semantic_id, name,   *)
(* type) and update_nss_from.  Python objects are named by strings; a      *)
(* dict is a sequence of <<key, value>> pairs in insertion order.          *)
(***************************************************************************)
EXTENDS Integers, Sequences, FiniteSets, TLC

\* ------------------------------------------------------------------ bounds
\* longest item sequence handed to a constructor or a slice replacement
MaxItems == 2

\* number of calls made on the object graph after its construction
MaxCalls == 2

\* the same, when the calls are those of an ordered set of up to three objects
MaxCallsOrdered == 2

\* the same, when only update_nss_from, pop, clear, the id_short setter and add
\* are called
MaxCallsUpdate == 4

\* the same, when two sets with the same attributes are reconciled
MaxCallsReconcile == 2

\* the same, when the last call makes or resolves a reference
MaxCallsResolve == 2

\* the same, when the sets change and the last call makes a reference
MaxCallsRoundTrip == 5

\* the same, when backends are registered and the last call looks one up
MaxCallsBackends == 3

\* the same, when objects are updated from and committed to their sources
MaxCallsSync == 1

\* the same, when version and revision are assigned
MaxCallsAdmin == 3

\* the same, when keys are constructed and asked for their identifier
MaxCallsKey == 2

\* the same, when the four setters are called on the members of sibling sets
MaxCallsRename == 2

\* the same, when members of an ordered set are renamed
MaxCallsReorder == 2

\* the same, when members of an ordered set are replaced
MaxCallsReplace == 1

\* ------------------------------------------------------------ the universe
None == "None"

\* the owners of the sets (Namespace objects): O1 and O2 are Identifiable,
\* the Referable r3 is a UniqueIdShortNamespace as well
Namespaces == {"O1", "O2", "r3"}
Identifiables == {"O1", "O2"}

\* r1, r2, r3: Referable + HasSemantics (a submodel element); x1, x2:
\* Extension; q1, q2: Qualifier
Referables == {"r1", "r2"}
Referables3 == Referables \cup {"r3"}
Extensions == {"x1", "x2"}
Qualifiers == {"q1", "q2"}
Elems == Referables3 \cup Extensions \cup Qualifiers

\* str values of id_short / name / type; Reference values of semantic_id
IdShorts == {"a", "A", "b"}
Names == {"n", "m", "N"}
SemanticIds == {None, "X"}
StrValues == IdShorts \cup Names \cup {"c", "B", "C", "M", "", "1"}

\* isinstance(attr_value, str)
IsStr(v) == v \in StrValues

\* str.upper()
Upper(v) ==
  CASE v = "a" -> "A"
    [] v = "b" -> "B"
    [] v = "c" -> "C"
    [] v = "n" -> "N"
    [] v = "m" -> "M"
    [] OTHER -> v

\* the NamespaceSet objects: S1 (owner O1) and S3 (owner O2) hold Referables,
\* S2 is created later as a second set of O1, S4 is a second set of O1 that
\* holds up to three Referables; S5 is the extension set and S6 the qualifier
\* set of O1; S7 (owner O1) and S8 (owner O2) have the attributes of S1 and
\* hold up to three Referables; S9 is the set of r3
SetIds == {"S1", "S2", "S3", "S4", "S5", "S6", "S7", "S8", "S9"}

\* constructor argument parent
NssParent(s) == IF s \in {"S3", "S8"} THEN "O2" ELSE IF s = "S9" THEN "r3" ELSE "O1"

\* constructor argument attribute_names: (name, case_sensitive) pairs
attribute_names(s) ==
  CASE s \in {"S1", "S7", "S8"} ->
                   << [name |-> "id_short", case_sensitive |-> FALSE],
                      [name |-> "semantic_id", case_sensitive |-> TRUE] >>
    [] s = "S5" -> << [name |-> "name", case_sensitive |-> TRUE] >>
    [] s = "S6" -> << [name |-> "type", case_sensitive |-> TRUE] >>
    [] OTHER -> << [name |-> "id_short", case_sensitive |-> FALSE] >>

\* the class of the set object
IsOrdered(s) == s \in {"S2", "S3", "S4"}

get_attribute_name_list(s) ==
  [j \in 1..Len(attribute_names(s)) |-> attribute_names(s)[j].name]

AttrNameSet(s) == {attribute_names(s)[j].name : j \in 1..Len(attribute_names(s))}

\* --------------------------------------------------------------- variables
VARIABLES
  attrs,                   \* attrs[e][a]: the instance fields _id_short, _semantic_id, _name, _type
  parent,                  \* parent[e]: the owner of e, or None
  backend,                 \* backend[s][a]: the dict of attribute a of set s
  order,                   \* order[s]: the list _order of an ordered set
  namespace_element_sets,  \* per owner, the list of its registered sets
  _backends_map,           \* the registry of backends: scheme, backend class
  last,                    \* the last call: operation, raised error, returned value
  calls,                   \* number of calls made so far
  budget                   \* number of calls that may be made

vars == <<calls, budget, attrs, parent, backend, order, namespace_element_sets, _backends_map, last>>

\* ------------------------------------------------------- lists and dicts
Range(f) == {f[i] : i \in DOMAIN f}

DictHas(d, k) == \E i \in 1..Len(d) : d[i][1] = k

DictGet(d, k) == d[CHOOSE i \in 1..Len(d) : d[i][1] = k][2]

DictSet(d, k, v) ==
  IF DictHas(d, k)
  THEN [i \in 1..Len(d) |-> IF d[i][1] = k THEN <<k, v>> ELSE d[i]]
  ELSE Append(d, <<k, v>>)

DictDel(d, k) == SelectSeq(d, LAMBDA p : p[1] # k)

DictValues(d) == [i \in 1..Len(d) |-> d[i][2]]

DictKeys(d) == {d[i][1] : i \in 1..Len(d)}

\* list.remove(x): the first occurrence goes
ListRemove(l, x) ==
  LET i == CHOOSE i \in 1..Len(l) : l[i] = x /\ \A j \in 1..(i - 1) : l[j] # x
  IN SubSeq(l, 1, i - 1) \o SubSeq(l, i + 1, Len(l))

\* list.insert(i, x) with Python's clamping of the index (0-based i)
ListInsert(l, i, x) ==
  LET n == Len(l)
      k == IF i < 0 THEN (IF i + n < 0 THEN 0 ELSE i + n) ELSE (IF i > n THEN n ELSE i)
  IN SubSeq(l, 1, k) \o <<x>> \o SubSeq(l, k + 1, n)

\* bounds of the slice [a:b] of a list of length n, 0-based, hi exclusive
SliceLo(n, a) ==
  IF a < 0 THEN (IF a + n < 0 THEN 0 ELSE a + n) ELSE (IF a > n THEN n ELSE a)

SliceHi(n, a, b) ==
  LET lo == SliceLo(n, a)
      hi == SliceLo(n, b)
  IN IF hi < lo THEN lo ELSE hi

\* l[a:b]
ListSlice(l, a, b) == SubSeq(l, SliceLo(Len(l), a) + 1, SliceHi(Len(l), a, b))

\* l[a:b] = items
ListSetSlice(l, a, b, items) ==
  SubSeq(l, 1, SliceLo(Len(l), a)) \o items \o SubSeq(l, SliceHi(Len(l), a, b) + 1, Len(l))

\* ------------------------------------------------ results of a method call
Ok(M) == [m |-> M, err |-> "ok", ret |-> None]

Raise(M, e) == [m |-> M, err |-> e, ret |-> None]

Return(M, v) == [m |-> M, err |-> "ok", ret |-> v]

\* the statements after a call: F runs on the result r of the call
Bind(r, F(_)) == F(r)

\* the same, the call being outside of any try: an exception it raised ends
\* the method, F runs on the result of a call that returned
Then(r, F(_)) == IF r.err # "ok" THEN r ELSE F(r)

\* ------------------------------------------------------------ NamespaceSet
hasattr(M, x, attr_name) == attr_name \in DOMAIN M.attrs[x]

\* the attribute value taken as it is, whatever case_sensitive says
GetAttributeAsIs(M, x, attr_name, case_sensitive) == M.attrs[x][attr_name]

_get_attribute(M, x, attr_name, case_sensitive) ==
  LET attr_value == M.attrs[x][attr_name]
  IN IF case_sensitive \/ ~IsStr(attr_value) THEN attr_value ELSE Upper(attr_value)

CaseSensitive(s, attr_name) ==
  LET j == CHOOSE j \in 1..Len(attribute_names(s)) : attribute_names(s)[j].name = attr_name
  IN attribute_names(s)[j].case_sensitive

contains_id(M, s, attribute_name, identifier) ==
  IF attribute_name \notin AttrNameSet(s) THEN FALSE
  ELSE IF CaseSensitive(s, attribute_name) \/ ~IsStr(identifier)
       THEN DictHas(M.backend[s][attribute_name], identifier)
       ELSE DictHas(M.backend[s][attribute_name], Upper(identifier))

\* __contains__: decided on the first attribute of the set only
NssContains(M, s, obj) ==
  LET an == attribute_names(s)[1]
  IN IF ~hasattr(M, obj, an.name) THEN FALSE
     ELSE LET attr_value == _get_attribute(M, obj, an.name, an.case_sensitive)
          IN /\ DictHas(M.backend[s][an.name], attr_value)
             /\ DictGet(M.backend[s][an.name], attr_value) = obj

\* __len__
NssLen(M, s) == Len(M.backend[s][attribute_names(s)[1].name])

\* the collision scan of add over all sets of the owner
AddCollision(M, s, value) ==
  \E i \in 1..Len(M.nes[NssParent(s)]) :
    LET set_ == M.nes[NssParent(s)][i]
    IN \E j \in 1..Len(attribute_names(set_)) :
         LET an == attribute_names(set_)[j]
         IN /\ hasattr(M, value, an.name)
            /\ DictHas(M.backend[set_][an.name],
                       _get_attribute(M, value, an.name, an.case_sensitive))

\* the insertion loop of add, attribute j onwards
RECURSIVE AddIndex(_, _, _, _)
AddIndex(M, s, value, j) ==
  IF j > Len(attribute_names(s)) THEN Ok(M)
  ELSE LET an == attribute_names(s)[j]
       IN IF ~hasattr(M, value, an.name) THEN Raise(M, "AttributeError")
          ELSE AddIndex([M EXCEPT !.backend[s][an.name] =
                           DictSet(@, _get_attribute(M, value, an.name, an.case_sensitive), value)],
                        s, value, j + 1)

\* add that takes a value whatever its parent is
AddAnyParent(M, s, value) ==
  IF AddCollision(M, s, value) THEN Raise(M, "KeyError")
  ELSE AddIndex([M EXCEPT !.parent[value] = NssParent(s)], s, value, 1)

NamespaceSet_add(M, s, value) ==
  IF AddCollision(M, s, value) THEN Raise(M, "KeyError")
  ELSE IF M.parent[value] # None /\ M.parent[value] # NssParent(s) THEN Raise(M, "ValueError")
  ELSE AddIndex([M EXCEPT !.parent[value] = NssParent(s)], s, value, 1)

\* the lookup loop of remove, attribute j onwards: the error it raises, or
\* whether some dict holds the item itself
RECURSIVE RemoveScan(_, _, _, _, _)
RemoveScan(M, s, item, j, item_found) ==
  IF j > Len(attribute_names(s)) THEN (IF item_found THEN "ok" ELSE "KeyError")
  ELSE LET an == attribute_names(s)[j]
       IN IF ~hasattr(M, item, an.name) THEN "AttributeError"
          ELSE LET k == _get_attribute(M, item, an.name, an.case_sensitive)
               IN IF ~DictHas(M.backend[s][an.name], k) THEN "KeyError"
                  ELSE RemoveScan(M, s, item, j + 1,
                                  item_found \/ DictGet(M.backend[s][an.name], k) = item)

NamespaceSet_remove(M, s, item) ==
  Bind(RemoveScan(M, s, item, 1, FALSE), LAMBDA scan :
    IF scan # "ok" THEN Raise(M, scan)
    ELSE Ok([M EXCEPT !.parent[item] = None,
                      !.backend[s] = [a \in DOMAIN @ |->
                         DictDel(@[a], _get_attribute(M, item, a, CaseSensitive(s, a)))]]))

NamespaceSet_pop(M, s) ==
  LET a1 == attribute_names(s)[1].name
      d == M.backend[s][a1]
  IN IF Len(d) = 0 THEN Raise(M, "KeyError")
     ELSE LET value == d[Len(d)][2]
          IN Return([M EXCEPT !.backend[s][a1] = SubSeq(d, 1, Len(d) - 1),
                              !.parent[value] = None], value)

NamespaceSet_clear(M, s) ==
  LET values == UNION {Range(DictValues(M.backend[s][a])) : a \in DOMAIN M.backend[s]}
  IN Ok([M EXCEPT !.parent = [e \in DOMAIN @ |-> IF e \in values THEN None ELSE @[e]],
                  !.backend[s] = [a \in DOMAIN @ |-> <<>>]])

\* get(attribute_name, attribute_value): the object, or the default None
get(M, s, attribute_name, attribute_value) ==
  LET k == IF CaseSensitive(s, attribute_name) THEN attribute_value ELSE Upper(attribute_value)
  IN IF DictHas(M.backend[s][attribute_name], k) THEN DictGet(M.backend[s][attribute_name], k)
     ELSE None

\* get_object_by_attribute(attribute_name, attribute_value)
get_object_by_attribute(M, s, attribute_name, attribute_value) ==
  LET k == IF CaseSensitive(s, attribute_name) THEN attribute_value ELSE Upper(attribute_value)
  IN IF DictHas(M.backend[s][attribute_name], k)
     THEN Return(M, DictGet(M.backend[s][attribute_name], k))
     ELSE Raise(M, "KeyError")

NamespaceSet_iter(M, s) == DictValues(M.backend[s][attribute_names(s)[1].name])

\* ----------------------------------------------------- OrderedNamespaceSet
OrderedNamespaceSet_add(M, s, value) ==
  Then(NamespaceSet_add(M, s, value), LAMBDA r :
    Ok([r.m EXCEPT !.order[s] = Append(@, value)]))

OrderedNamespaceSet_remove(M, s, item) ==
  Then(NamespaceSet_remove(M, s, item), LAMBDA r :
    IF item \notin Range(r.m.order[s]) THEN Raise(r.m, "ValueError")
    ELSE Ok([r.m EXCEPT !.order[s] = ListRemove(@, item)]))

\* pop() without an index
OrderedNamespaceSet_pop(M, s) ==
  Then(NamespaceSet_pop(M, s), LAMBDA r :
    IF r.ret \notin Range(r.m.order[s]) THEN Raise(r.m, "ValueError")
    ELSE Return([r.m EXCEPT !.order[s] = ListRemove(@, r.ret)], r.ret))

OrderedNamespaceSet_clear(M, s) ==
  Then(NamespaceSet_clear(M, s), LAMBDA r : Ok([r.m EXCEPT !.order[s] = <<>>]))

\* pop(i) with an index (0-based, negative from the end)
OrderedNamespaceSet_pop_i(M, s, i) ==
  LET n == Len(M.order[s])
      k == IF i < 0 THEN i + n ELSE i
  IN IF k < 0 \/ k >= n THEN Raise(M, "IndexError")
     ELSE Bind(M.order[s][k + 1], LAMBDA value :
            Then(NamespaceSet_remove([M EXCEPT !.order[s] = SubSeq(@, 1, k) \o SubSeq(@, k + 2, n)],
                                     s, value),
                 LAMBDA r : Return(r.m, value)))

\* insert that puts the object at the tail whatever the index is
InsertAtTail(M, s, index, object_) ==
  Then(NamespaceSet_add(M, s, object_), LAMBDA r :
    Ok([r.m EXCEPT !.order[s] = Append(@, object_)]))

OrderedNamespaceSet_insert(M, s, index, object_) ==
  Then(NamespaceSet_add(M, s, object_), LAMBDA r :
    Ok([r.m EXCEPT !.order[s] = ListInsert(@, index, object_)]))

\* the loop "for i in items: super().remove(i)", item j onwards
RECURSIVE RemoveAll(_, _, _, _)
RemoveAll(M, s, items, j) ==
  IF j > Len(items) THEN Ok(M)
  ELSE Then(NamespaceSet_remove(M, s, items[j]), LAMBDA r : RemoveAll(r.m, s, items, j + 1))

\* __setitem__ with an int that removes the replaced element before it adds
\* the new one
SetItemRemoveFirst(M, s, i, o) ==
  LET n == Len(M.order[s])
      k == IF i < 0 THEN i + n ELSE i
  IN IF k < 0 \/ k >= n THEN Raise(M, "IndexError")
     ELSE Bind(<< M.order[s][k + 1] >>, LAMBDA deleted_items :
            Then(RemoveAll(M, s, deleted_items, 1), LAMBDA r :
              Then(NamespaceSet_add(r.m, s, o), LAMBDA q :
                Ok([q.m EXCEPT !.order[s][k + 1] = o]))))

\* __setitem__ with an int
OrderedNamespaceSet_setitem_int(M, s, i, o) ==
  LET n == Len(M.order[s])
      k == IF i < 0 THEN i + n ELSE i
  IN IF k < 0 \/ k >= n THEN Raise(M, "IndexError")
     ELSE Bind(<< M.order[s][k + 1] >>, LAMBDA deleted_items :
            Then(NamespaceSet_add(M, s, o), LAMBDA r :
              RemoveAll([r.m EXCEPT !.order[s][k + 1] = o], s, deleted_items, 1)))

\* the adding loop without the removal of the items added so far
RECURSIVE SliceAddNoRollback(_, _, _, _)
SliceAddNoRollback(M, s, new_items, j) ==
  IF j > Len(new_items) THEN Ok(M)
  ELSE Then(NamespaceSet_add(M, s, new_items[j]), LAMBDA r :
         SliceAddNoRollback(r.m, s, new_items, j + 1))

\* the loop of __setitem__ that adds the new items, item j onwards; on an
\* error the items added so far are removed again and the error is raised
RECURSIVE SliceAdd(_, _, _, _)
SliceAdd(M, s, new_items, j) ==
  IF j > Len(new_items) THEN Ok(M)
  ELSE Bind(NamespaceSet_add(M, s, new_items[j]), LAMBDA r :
         IF r.err # "ok"
         THEN Then(RemoveAll(r.m, s, SubSeq(new_items, 1, j - 1), 1),
                   LAMBDA back : Raise(back.m, r.err))
         ELSE SliceAdd(r.m, s, new_items, j + 1))

\* __setitem__ with a slice [a:b]; new_items is an islice iterator, which the
\* adding loop has used up when it is assigned to the slice of _order
OrderedNamespaceSet_setitem_slice(M, s, a, b, o) ==
  Bind(ListSlice(M.order[s], a, b), LAMBDA deleted_items :
    Then(SliceAdd(M, s, SubSeq(o, 1, IF Len(o) < Len(deleted_items) THEN Len(o)
                                     ELSE Len(deleted_items)), 1),
         LAMBDA r : RemoveAll([r.m EXCEPT !.order[s] = ListSetSlice(@, a, b, <<>>)],
                              s, deleted_items, 1)))

\* __delitem__ with a slice [a:b]
OrderedNamespaceSet_delitem_slice(M, s, a, b) ==
  Then(RemoveAll(M, s, ListSlice(M.order[s], a, b), 1), LAMBDA r :
    Ok([r.m EXCEPT !.order[s] = ListSetSlice(@, a, b, <<>>)]))

\* __delitem__ with an int: the slice [i:i+1]
OrderedNamespaceSet_delitem_int(M, s, i) == OrderedNamespaceSet_delitem_slice(M, s, i, i + 1)

\* ------------------------------------- method dispatch on the set's class
add(M, s, value) ==
  IF IsOrdered(s) THEN OrderedNamespaceSet_add(M, s, value) ELSE NamespaceSet_add(M, s, value)

remove(M, s, item) ==
  IF IsOrdered(s) THEN OrderedNamespaceSet_remove(M, s, item) ELSE NamespaceSet_remove(M, s, item)

pop(M, s) ==
  IF IsOrdered(s) THEN OrderedNamespaceSet_pop(M, s) ELSE NamespaceSet_pop(M, s)

clear(M, s) ==
  IF IsOrdered(s) THEN OrderedNamespaceSet_clear(M, s) ELSE NamespaceSet_clear(M, s)

iter(M, s) ==
  IF IsOrdered(s) THEN M.order[s] ELSE NamespaceSet_iter(M, s)

discard(M, s, x) ==
  IF ~NssContains(M, s, x) THEN Ok(M) ELSE remove(M, s, x)

\* ------------------------------------------------- NamespaceSet.__init__
\* the loop "for i in items: self.add(i)", item j onwards
RECURSIVE AddAll(_, _, _, _)
AddAll(M, s, items, j) ==
  IF j > Len(items) THEN Ok(M)
  ELSE Then(add(M, s, items[j]), LAMBDA r : AddAll(r.m, s, items, j + 1))

\* the constructor without the clear() of its except clause
InitNoRollback(M, s, items) ==
  AddAll([M EXCEPT !.nes[NssParent(s)] = Append(@, s),
                   !.backend[s] = [a \in AttrNameSet(s) |-> <<>>],
                   !.order[s] = <<>>],
         s, items, 1)

NamespaceSet_init(M, s, items) ==
  Bind(AddAll([M EXCEPT !.nes[NssParent(s)] = Append(@, s),
                        !.backend[s] = [a \in AttrNameSet(s) |-> <<>>],
                        !.order[s] = <<>>],
              s, items, 1),
       LAMBDA r : IF r.err # "ok" THEN Raise(clear(r.m, s).m, r.err) ELSE r)

\* ----------------------------------- setters of the indexed attributes
\* some set of the owner of self holds the new value already
PresentInParent(M, self, attribute_name, value) ==
  \E i \in 1..Len(M.nes[M.parent[self]]) :
    contains_id(M, M.nes[M.parent[self]][i], attribute_name, value)

\* the loop that takes self out of the sets of its owner p, set i onwards
RECURSIVE Detach(_, _, _, _, _)
Detach(M, p, self, i, set_add_list) ==
  IF i > Len(M.nes[p]) THEN [m |-> M, err |-> "ok", ret |-> set_add_list]
  ELSE Bind(M.nes[p][i], LAMBDA set_ :
         IF NssContains(M, set_, self)
         THEN Then(discard(M, set_, self), LAMBDA r :
                Detach(r.m, p, self, i + 1, Append(set_add_list, set_)))
         ELSE Detach(M, p, self, i + 1, set_add_list))

\* the loop that adds self to the sets it was taken out of, set i onwards
RECURSIVE Reattach(_, _, _, _)
Reattach(M, self, set_add_list, i) ==
  IF i > Len(set_add_list) THEN Ok(M)
  ELSE Then(add(M, set_add_list[i], self), LAMBDA r : Reattach(r.m, self, set_add_list, i + 1))

\* the field is written and the sets of the owner are left as they are
WriteFieldOnly(M, self, attribute_name, value) ==
  Ok([M EXCEPT !.attrs[self][attribute_name] = value])

\* detach, write the field, reattach, write the field again
Reindex(M, self, attribute_name, value) ==
  Then(Detach(M, M.parent[self], self, 1, <<>>), LAMBDA d :
    Then(Reattach([d.m EXCEPT !.attrs[self][attribute_name] = value], self, d.ret, 1),
         LAMBDA r : Ok([r.m EXCEPT !.attrs[self][attribute_name] = value])))

\* re.fullmatch("[a-zA-Z0-9_]*", s) on the values the model uses
MatchesIdShortChars(v) == v \in IdShorts \cup {"c", "", "1"}

\* test_id_short[0].isalpha()
StartsWithLetter(v) == v \in IdShorts \cup {"c"}

_set_id_short(M, self, id_short) ==
  IF id_short = M.attrs[self]["id_short"] THEN Ok(M)
  ELSE IF id_short = "" THEN Raise(M, "AASConstraintViolation")
  ELSE IF ~MatchesIdShortChars(id_short) THEN Raise(M, "AASConstraintViolation")
  ELSE IF ~StartsWithLetter(id_short) THEN Raise(M, "AASConstraintViolation")
  ELSE IF M.parent[self] # None
       THEN IF PresentInParent(M, self, "id_short", id_short) THEN Raise(M, "KeyError")
            ELSE Reindex(M, self, "id_short", id_short)
       ELSE Ok([M EXCEPT !.attrs[self]["id_short"] = id_short])

semantic_id_setter(M, self, semantic_id) ==
  IF M.parent[self] # None
  THEN IF semantic_id # None /\ PresentInParent(M, self, "semantic_id", semantic_id)
       THEN Raise(M, "KeyError")
       ELSE Reindex(M, self, "semantic_id", semantic_id)
  ELSE Ok([M EXCEPT !.attrs[self]["semantic_id"] = semantic_id])

name_setter(M, self, name) ==
  IF M.parent[self] # None
  THEN IF PresentInParent(M, self, "name", name) THEN Raise(M, "KeyError")
       ELSE Reindex(M, self, "name", name)
  ELSE Ok([M EXCEPT !.attrs[self]["name"] = name])

type_setter(M, self, type_) ==
  IF M.parent[self] # None
  THEN IF PresentInParent(M, self, "type", type_) THEN Raise(M, "KeyError")
       ELSE Reindex(M, self, "type", type_)
  ELSE Ok([M EXCEPT !.attrs[self]["type"] = type_])

\* ------------------------------------------------------ update_nss_from
\* Referable.update_from(other, update_source=True): every instance field of
\* other but parent is written into self, past the setters
update_from(M, self, other) ==
  [M EXCEPT !.attrs[self] =
     [a \in (DOMAIN M.attrs[self]) \cup (DOMAIN M.attrs[other]) |->
        IF a \in DOMAIN M.attrs[other] THEN M.attrs[other][a] ELSE M.attrs[self][a]]]

\* the attribute update_nss_from looks an object of other up by
UniqueAttribute(x) ==
  IF x \in Referables3 THEN "id_short" ELSE IF x \in Qualifiers THEN "type" ELSE "name"

\* the first loop: objects of other found in self are merged (a Referable)
\* or left alone, the others are collected in objects_to_add
RECURSIVE MatchLoop(_, _, _, _, _)
MatchLoop(M, self, items, j, objects_to_add) ==
  IF j > Len(items) THEN [m |-> M, err |-> "ok", ret |-> objects_to_add]
  ELSE LET other_object == items[j]
           a == UniqueAttribute(other_object)
       IN IF a \notin AttrNameSet(self)
          THEN MatchLoop(M, self, items, j + 1, Append(objects_to_add, other_object))
          ELSE LET v == M.attrs[other_object][a]
                   k == IF CaseSensitive(self, a) THEN v ELSE Upper(v)
               IN IF ~DictHas(M.backend[self][a], k)
                  THEN MatchLoop(M, self, items, j + 1, Append(objects_to_add, other_object))
                  ELSE IF other_object \in Referables3
                  THEN MatchLoop(update_from(M, DictGet(M.backend[self][a], k), other_object),
                                 self, items, j + 1, objects_to_add)
                  ELSE MatchLoop(M, self, items, j + 1, objects_to_add)

\* the second loop, for one attribute both sets track: the members of self
\* whose value other does not hold
Unmatched(M, self, other, attr_name) ==
  SelectSeq(DictValues(M.backend[self][attr_name]),
            LAMBDA item : ~DictHas(M.backend[other][attr_name],
                                   _get_attribute(M, item, attr_name, CaseSensitive(self, attr_name))))

RECURSIVE ObjectsToRemove(_, _, _, _)
ObjectsToRemove(M, self, other, j) ==
  IF j > Len(attribute_names(self)) THEN <<>>
  ELSE LET attr_name == attribute_names(self)[j].name
       IN (IF attr_name \in AttrNameSet(other) THEN Unmatched(M, self, other, attr_name) ELSE <<>>)
          \o ObjectsToRemove(M, self, other, j + 1)

\* the third loop: move the collected objects from other to self
RECURSIVE MoveAll(_, _, _, _, _)
MoveAll(M, self, other, objects_to_add, j) ==
  IF j > Len(objects_to_add) THEN Ok(M)
  ELSE Then(remove(M, other, objects_to_add[j]), LAMBDA r1 :
         Then(add(r1.m, self, objects_to_add[j]), LAMBDA r2 :
           MoveAll(r2.m, self, other, objects_to_add, j + 1)))

\* the fourth loop: "for object_to_remove in objects_to_remove: self.remove(...)"
RECURSIVE DropAll(_, _, _, _)
DropAll(M, self, objects_to_remove, j) ==
  IF j > Len(objects_to_remove) THEN Ok(M)
  ELSE Then(remove(M, self, objects_to_remove[j]), LAMBDA r :
         DropAll(r.m, self, objects_to_remove, j + 1))

update_nss_from(M, self, other) ==
  Bind(MatchLoop(M, self, iter(M, other), 1, <<>>), LAMBDA m1 :
    Bind(ObjectsToRemove(m1.m, self, other, 1), LAMBDA objects_to_remove :
      Then(MoveAll(m1.m, self, other, m1.ret, 1), LAMBDA m3 :
        DropAll(m3.m, self, objects_to_remove, 1))))

\* ------------------------------------------- Key, Identifier, AASReference
\* the values of the enumerations IdentifierType and KeyType
IdentifierType == [IRDI |-> 0, IRI |-> 1, CUSTOM |-> 2]

KeyType == [IRDI |-> 0, IRI |-> 1, CUSTOM |-> 2, IDSHORT |-> 3, FRAGMENT_ID |-> 4]

\* IdentifierType(n) and KeyType(n): the member with value n
IdentifierTypeOf(n) == CHOOSE t \in DOMAIN IdentifierType : IdentifierType[t] = n

KeyTypeOf(n) == CHOOSE t \in DOMAIN KeyType : KeyType[t] = n

\* a test that takes CUSTOM for a local key type
IsLocalOrCustom(id_type) == id_type \in {"IDSHORT", "FRAGMENT_ID", "CUSTOM"}

is_local_key_type(id_type) == id_type \in {"IDSHORT", "FRAGMENT_ID"}

\* members of KeyElements: Identifiables, Referables and the other two
KeyElements ==
  {"ASSET_ADMINISTRATION_SHELL", "SUBMODEL", "PROPERTY", "SUBMODEL_ELEMENT_COLLECTION",
   "GLOBAL_REFERENCE", "FRAGMENT_REFERENCE"}

LOCAL_KEY_TYPES == {"IDSHORT", "FRAGMENT_ID"}

\* a constructor that does not test constraint 81
KeyInitNoShellCheck(M, type_, value, id_type) ==
  IF value = "" THEN Raise(M, "ValueError")
  ELSE IF type_ = "GLOBAL_REFERENCE" /\ id_type \in LOCAL_KEY_TYPES
  THEN [m |-> M, err |-> "AASConstraintViolation", ret |-> 80]
  ELSE Return(M, [type |-> type_, value |-> value, id_type |-> id_type])

\* Key.__init__; an AASConstraintViolation carries its constraint_id
Key_init(M, type_, value, id_type) ==
  IF value = "" THEN Raise(M, "ValueError")
  ELSE IF type_ = "GLOBAL_REFERENCE" /\ id_type \in LOCAL_KEY_TYPES
  THEN [m |-> M, err |-> "AASConstraintViolation", ret |-> 80]
  ELSE IF type_ = "ASSET_ADMINISTRATION_SHELL" /\ id_type \in LOCAL_KEY_TYPES
  THEN [m |-> M, err |-> "AASConstraintViolation", ret |-> 81]
  ELSE Return(M, [type |-> type_, value |-> value, id_type |-> id_type])

\* Identifiable.identification
identification(x) ==
  IF x = "O1" THEN [id |-> "i1", id_type |-> "IRI"] ELSE [id |-> "i2", id_type |-> "CUSTOM"]

\* the objects the provider holds, by their identification
Registered == {"O1"}

\* a provider that returns O1 for every identifier
GetAnyIdentifiable(M, identifier) == Return(M, "O1")

\* provider.get_identifiable(identifier)
get_identifiable(M, identifier) ==
  IF \E x \in Registered : identification(x) = identifier
  THEN Return(M, CHOOSE x \in Registered : identification(x) = identifier)
  ELSE Raise(M, "KeyError")

\* the class of the object in KEY_ELEMENTS_CLASSES, and isinstance
ClassOf(x) == IF x \in Identifiables THEN "Identifiable" ELSE "Referable"

isinstance(x, class) ==
  CASE class = "Identifiable" -> x \in Identifiables
    [] class = "UniqueIdShortNamespace" -> x \in Namespaces
    [] OTHER -> x \in Identifiables \cup Referables3

\* Key.get_identifier; the result is <<>> for None and <<identifier>> otherwise
Key_get_identifier(key) ==
  IF is_local_key_type(key.id_type) THEN <<>>
  ELSE <<[id |-> key.value, id_type |-> IdentifierTypeOf(KeyType[key.id_type])]>>

\* Key.from_referable
Key_from_referable(M, referable) ==
  IF isinstance(referable, "Identifiable")
  THEN Return(M, [type |-> ClassOf(referable), value |-> identification(referable).id,
                  id_type |-> KeyTypeOf(IdentifierType[identification(referable).id_type])])
  ELSE IF M.attrs[referable]["id_short"] = "" THEN Raise(M, "ValueError")
  ELSE Return(M, [type |-> ClassOf(referable), value |-> M.attrs[referable]["id_short"],
                  id_type |-> "IDSHORT"])

\* Referable.parent
ParentOf(M, x) == IF x \in DOMAIN M.parent THEN M.parent[x] ELSE None

\* list.reverse()
Reverse(l) == [i \in 1..Len(l) |-> l[Len(l) + 1 - i]]

\* the loop of from_referable; it has not ended after fuel rounds when the
\* parent links form a cycle
RECURSIVE FromReferableLoop(_, _, _, _, _)
FromReferableLoop(M, ref_type, ref, keys, fuel) ==
  IF fuel = 0 THEN Raise(M, "no return")
  ELSE Then(Key_from_referable(M, ref), LAMBDA k :
         IF isinstance(ref, "Identifiable")
         THEN Return(M, [key |-> Reverse(Append(keys, k.ret)), type |-> ref_type])
         ELSE IF ParentOf(M, ref) = None \/ ~isinstance(ParentOf(M, ref), "Referable")
         THEN Raise(M, "ValueError")
         ELSE FromReferableLoop(M, ref_type, ParentOf(M, ref), Append(keys, k.ret), fuel - 1))

\* AASReference.from_referable
from_referable(M, referable) ==
  FromReferableLoop(M, ClassOf(referable), referable, <<>>, Cardinality(Elems) + 1)

\* the index of the last key with an identifier, or 0
last_identifier_index(key) ==
  IF \E i \in 1..Len(key) : Key_get_identifier(key[i]) # <<>>
  THEN CHOOSE i \in 1..Len(key) :
         /\ Key_get_identifier(key[i]) # <<>>
         /\ \A j \in (i + 1)..Len(key) : Key_get_identifier(key[j]) = <<>>
  ELSE 0

\* Namespace._get_object(Referable, "id_short", id_short), set i onwards
RECURSIVE _get_object(_, _, _, _)
_get_object(M, ns, id_short, i) ==
  IF i > Len(M.nes[ns]) THEN Raise(M, "KeyError")
  ELSE IF "id_short" \notin AttrNameSet(M.nes[ns][i]) THEN _get_object(M, ns, id_short, i + 1)
  ELSE Bind(get_object_by_attribute(M, M.nes[ns][i], "id_short", id_short), LAMBDA r :
         IF r.err = "KeyError" THEN _get_object(M, ns, id_short, i + 1) ELSE r)

\* UniqueIdShortNamespace.get_referable
get_referable(M, ns, id_short) == _get_object(M, ns, id_short, 1)

\* a walk that reports a missing member where the item is no namespace
RECURSIVE FollowPathKeyErrorOnly(_, _, _, _, _)
FollowPathKeyErrorOnly(M, ref, item, i, asked) ==
  IF i > Len(ref.key)
  THEN IF ~isinstance(item, ref.type)
       THEN [m |-> M, err |-> "UnexpectedTypeError", ret |-> [item |-> item, asked |-> asked]]
       ELSE Return(M, [item |-> item, asked |-> asked])
  ELSE IF ~isinstance(item, "UniqueIdShortNamespace")
       THEN [m |-> M, err |-> "KeyError", ret |-> [item |-> None, asked |-> asked]]
       ELSE Bind(get_referable(M, item, ref.key[i].value), LAMBDA r :
              IF r.err # "ok"
              THEN [m |-> M, err |-> r.err, ret |-> [item |-> None, asked |-> asked]]
              ELSE FollowPathKeyErrorOnly(M, ref, r.ret, i + 1, asked))

\* a walk that returns the item it reaches whatever its class is
RECURSIVE FollowPathUnchecked(_, _, _, _, _)
FollowPathUnchecked(M, ref, item, i, asked) ==
  IF i > Len(ref.key)
  THEN Return(M, [item |-> item, asked |-> asked])
  ELSE IF ~isinstance(item, "UniqueIdShortNamespace")
       THEN [m |-> M, err |-> "TypeError", ret |-> [item |-> None, asked |-> asked]]
       ELSE Bind(get_referable(M, item, ref.key[i].value), LAMBDA r :
              IF r.err # "ok"
              THEN [m |-> M, err |-> r.err, ret |-> [item |-> None, asked |-> asked]]
              ELSE FollowPathUnchecked(M, ref, r.ret, i + 1, asked))

\* the loop of resolve over the keys after the identifier key, key i onwards;
\* asked is the list of the identifiers handed to the provider
RECURSIVE FollowPath(_, _, _, _, _)
FollowPath(M, ref, item, i, asked) ==
  IF i > Len(ref.key)
  THEN IF ~isinstance(item, ref.type)
       THEN [m |-> M, err |-> "UnexpectedTypeError", ret |-> [item |-> item, asked |-> asked]]
       ELSE Return(M, [item |-> item, asked |-> asked])
  ELSE IF ~isinstance(item, "UniqueIdShortNamespace")
       THEN [m |-> M, err |-> "TypeError", ret |-> [item |-> None, asked |-> asked]]
       ELSE Bind(get_referable(M, item, ref.key[i].value), LAMBDA r :
              IF r.err # "ok"
              THEN [m |-> M, err |-> r.err, ret |-> [item |-> None, asked |-> asked]]
              ELSE FollowPath(M, ref, r.ret, i + 1, asked))

\* a resolve that hands the last key to the provider whatever its id_type is
ResolveAsksFirst(M, ref) ==
  IF Len(ref.key) = 0
  THEN [m |-> M, err |-> "IndexError", ret |-> [item |-> None, asked |-> <<>>]]
  ELSE Bind([id |-> ref.key[Len(ref.key)].value, id_type |-> "CUSTOM"], LAMBDA identifier :
         Bind(get_identifiable(M, identifier), LAMBDA r :
           IF r.err # "ok"
           THEN [m |-> M, err |-> "KeyError", ret |-> [item |-> None, asked |-> <<identifier>>]]
           ELSE FollowPath(M, ref, r.ret, Len(ref.key) + 1, <<identifier>>)))

\* the index of the first key that has an identifier, 0 when none has
first_identifier_index(key) ==
  IF \E i \in 1..Len(key) : Key_get_identifier(key[i]) # <<>>
  THEN CHOOSE i \in 1..Len(key) :
         /\ Key_get_identifier(key[i]) # <<>>
         /\ \A j \in 1..(i - 1) : Key_get_identifier(key[j]) = <<>>
  ELSE 0

\* a resolve that starts at the first key with an identifier, not the last
ResolveFromFirstIdentifier(M, ref) ==
  IF Len(ref.key) = 0
  THEN [m |-> M, err |-> "IndexError", ret |-> [item |-> None, asked |-> <<>>]]
  ELSE IF first_identifier_index(ref.key) = 0
  THEN [m |-> M, err |-> "NotImplementedError", ret |-> [item |-> None, asked |-> <<>>]]
  ELSE Bind(Key_get_identifier(ref.key[first_identifier_index(ref.key)])[1], LAMBDA identifier :
         Bind(get_identifiable(M, identifier), LAMBDA r :
           IF r.err # "ok"
           THEN [m |-> M, err |-> "KeyError", ret |-> [item |-> None, asked |-> <<identifier>>]]
           ELSE FollowPath(M, ref, r.ret, first_identifier_index(ref.key) + 1, <<identifier>>)))

\* a resolve that refuses a sequence in which a key before the last identifier
\* key holds an identifier the provider does not know
ResolveChecksLeadingKeys(M, ref) ==
  IF Len(ref.key) = 0
  THEN [m |-> M, err |-> "IndexError", ret |-> [item |-> None, asked |-> <<>>]]
  ELSE IF last_identifier_index(ref.key) = 0
  THEN [m |-> M, err |-> "NotImplementedError", ret |-> [item |-> None, asked |-> <<>>]]
  ELSE Bind(Key_get_identifier(ref.key[last_identifier_index(ref.key)])[1], LAMBDA identifier :
         IF \E j \in 1..(last_identifier_index(ref.key) - 1) :
              /\ Key_get_identifier(ref.key[j]) # <<>>
              /\ get_identifiable(M, Key_get_identifier(ref.key[j])[1]).err # "ok"
         THEN [m |-> M, err |-> "KeyError", ret |-> [item |-> None, asked |-> <<identifier>>]]
         ELSE Bind(get_identifiable(M, identifier), LAMBDA r :
           IF r.err # "ok"
           THEN [m |-> M, err |-> "KeyError", ret |-> [item |-> None, asked |-> <<identifier>>]]
           ELSE FollowPath(M, ref, r.ret, last_identifier_index(ref.key) + 1, <<identifier>>)))

\* AASReference.resolve
resolve(M, ref) ==
  IF Len(ref.key) = 0
  THEN [m |-> M, err |-> "IndexError", ret |-> [item |-> None, asked |-> <<>>]]
  ELSE IF last_identifier_index(ref.key) = 0
  THEN [m |-> M, err |-> "NotImplementedError", ret |-> [item |-> None, asked |-> <<>>]]
  ELSE Bind(Key_get_identifier(ref.key[last_identifier_index(ref.key)])[1], LAMBDA identifier :
         Bind(get_identifiable(M, identifier), LAMBDA r :
           IF r.err # "ok"
           THEN [m |-> M, err |-> "KeyError", ret |-> [item |-> None, asked |-> <<identifier>>]]
           ELSE FollowPath(M, ref, r.ret, last_identifier_index(ref.key) + 1, <<identifier>>)))

\* ------------------------------------------------------ backends registry
\* the characters of the locators: letters, the other characters a scheme
\* may hold, the colon, and a character no scheme holds; a str is the tuple
\* of its characters
Letters == {"f", "g"}

SchemeChars == Letters \cup {"+", "-", "."}

Chars == {"f", "g", "+", ":", "1"}

\* the number of leading characters of url, from position i on, that a
\* scheme may hold: the match of [a-zA-Z+\-\.]*
RECURSIVE SchemeRun(_, _)
SchemeRun(url, i) ==
  IF i > Len(url) \/ url[i] \notin SchemeChars THEN i - 1 ELSE SchemeRun(url, i + 1)

\* RE_URI_SCHEME.match(url): <<>> for None, otherwise <<group 1>>
RE_URI_SCHEME_match(url) ==
  IF Len(url) = 0 \/ url[1] \notin Letters THEN <<>>
  ELSE IF SchemeRun(url, 2) < Len(url) /\ url[SchemeRun(url, 2) + 1] = ":"
  THEN <<SubSeq(url, 1, SchemeRun(url, 2))>>
  ELSE <<>>

\* a registry in which the first registration of a scheme stays
RegisterBackendOnce(bm, scheme, backend_class) ==
  IF DictHas(bm, scheme) THEN bm ELSE DictSet(bm, scheme, backend_class)

\* register_backend(scheme, backend_class) on the registry bm
register_backend(bm, scheme, backend_class) == DictSet(bm, scheme, backend_class)

\* get_backend(url) on the registry bm
get_backend(M, bm, url) ==
  IF RE_URI_SCHEME_match(url) = <<>> THEN Raise(M, "ValueError")
  ELSE IF ~DictHas(bm, RE_URI_SCHEME_match(url)[1]) THEN Raise(M, "KeyError")
  ELSE Return(M, DictGet(bm, RE_URI_SCHEME_match(url)[1]))

\* ------------------------------------------- AdministrativeInformation
\* AdministrativeInformation._set_version
_set_version(M, a, version) ==
  IF version = "" THEN Raise(M, "ValueError")
  ELSE Ok([M EXCEPT !.attrs[a]["version"] = version])

\* AdministrativeInformation._set_revision; None and "" are falsy
_set_revision(M, a, revision) ==
  IF revision = "" THEN Raise(M, "ValueError")
  ELSE IF M.attrs[a]["version"] = None /\ revision \notin {None, ""} THEN Raise(M, "ValueError")
  ELSE Ok([M EXCEPT !.attrs[a]["revision"] = revision])

\* AdministrativeInformation.__init__
AdministrativeInformation_init(M, a, version, revision) ==
  Then(_set_version(M, a, version), LAMBDA r : _set_revision(r.m, a, revision))

\* ------------------------------------------------- update and commit
\* Backend.update_object and Backend.commit_object of the backend class cls:
\* the class B1 stores and loads, the class B2 fails
Backend_call(M, cls) ==
  IF cls = "B2" THEN Raise(M, "BackendError") ELSE Ok(M)

\* a call that goes on after a failure of the lookup or of the backend
BackendCallSuppressed(M, bm, op, object, store_object, relative_path, log) ==
  Bind(get_backend(M, bm, M.attrs[store_object]["source"]), LAMBDA g :
    IF g.err # "ok"
    THEN [m |-> M, err |-> "ok",
          ret |-> Append(log, [op |-> op, object |-> object, store |-> store_object,
                               path |-> relative_path, backend |-> None, err |-> g.err])]
    ELSE Bind(Backend_call(M, g.ret), LAMBDA r :
           [m |-> r.m, err |-> "ok",
            ret |-> Append(log, [op |-> op, object |-> object, store |-> store_object,
                                 path |-> relative_path, backend |-> g.ret, err |-> r.err])]))

\* backends.get_backend(store_object.source).update_object(...) or
\* .commit_object(...); log is the list of the backend calls attempted so
\* far, each with its arguments, the backend class and how it ended
BackendCall(M, bm, op, object, store_object, relative_path, log) ==
  Bind(get_backend(M, bm, M.attrs[store_object]["source"]), LAMBDA g :
    IF g.err # "ok"
    THEN [m |-> M, err |-> g.err,
          ret |-> Append(log, [op |-> op, object |-> object, store |-> store_object,
                               path |-> relative_path, backend |-> None, err |-> g.err])]
    ELSE Bind(Backend_call(M, g.ret), LAMBDA r :
           [m |-> r.m, err |-> r.err,
            ret |-> Append(log, [op |-> op, object |-> object, store |-> store_object,
                                 path |-> relative_path, backend |-> g.ret, err |-> r.err])]))

\* the loop of Referable.find_source; the result is <<>> for (None, None)
\* and <<store_object, relative_path>> otherwise
RECURSIVE FindSourceLoop(_, _, _)
FindSourceLoop(M, referable, relative_path) ==
  IF M.attrs[referable]["source"] # <<>> THEN <<referable, Reverse(relative_path)>>
  ELSE IF ParentOf(M, referable) # None
  THEN FindSourceLoop(M, ParentOf(M, referable),
                      Append(relative_path, M.attrs[ParentOf(M, referable)]["id_short"]))
  ELSE <<>>

\* a search whose path starts below the owner of the source
FindSourceBelowOwner(M, self) ==
  IF FindSourceLoop(M, self, <<M.attrs[self]["id_short"]>>) = <<>> THEN <<>>
  ELSE <<FindSourceLoop(M, self, <<M.attrs[self]["id_short"]>>)[1],
         Tail(FindSourceLoop(M, self, <<M.attrs[self]["id_short"]>>)[2])>>

\* Referable.find_source
find_source(M, self) == FindSourceLoop(M, self, <<M.attrs[self]["id_short"]>>)

RECURSIVE update(_, _, _, _, _, _)
RECURSIVE UpdateItems(_, _, _, _, _)
RECURSIVE UpdateSets(_, _, _, _, _)

\* the first part of Referable.update: the update of the object itself
UpdateSelf(M, bm, self, _indirect_source, log) ==
  IF ~_indirect_source
  THEN IF M.attrs[self]["source"] # <<>>
       THEN BackendCall(M, bm, "update", self, self, <<>>, log)
       ELSE Return(M, log)
  ELSE IF M.attrs[self]["source"] # <<>>
       THEN BackendCall(M, bm, "update", self, self, <<>>, log)
       ELSE Bind(find_source(M, self), LAMBDA fs :
              IF fs # <<>>
              THEN BackendCall(M, bm, "update", self, fs[1], fs[2], log)
              ELSE Return(M, log))

\* a loop that lets every item search a source among its ancestors
UpdateItemsIndirect(M, bm, items, j, log) ==
  IF j > Len(items) THEN Return(M, log)
  ELSE Then(update(M, bm, items[j], TRUE, TRUE, log), LAMBDA r :
         UpdateItems(r.m, bm, items, j + 1, r.ret))

\* for referable in namespace_set: referable.update(max_age, recursive=True,
\* _indirect_source=False), item j of the list items onwards
UpdateItems(M, bm, items, j, log) ==
  IF j > Len(items) THEN Return(M, log)
  ELSE Then(update(M, bm, items[j], TRUE, FALSE, log), LAMBDA r :
         UpdateItems(r.m, bm, items, j + 1, r.ret))

\* for namespace_set in self.namespace_element_sets, set i onwards
UpdateSets(M, bm, self, i, log) ==
  IF i > Len(M.nes[self]) THEN Return(M, log)
  ELSE IF "id_short" \notin Range(get_attribute_name_list(M.nes[self][i]))
  THEN UpdateSets(M, bm, self, i + 1, log)
  ELSE Then(UpdateItems(M, bm, iter(M, M.nes[self][i]), 1, log), LAMBDA r :
         UpdateSets(r.m, bm, self, i + 1, r.ret))

\* Referable.update
update(M, bm, self, recursive, _indirect_source, log) ==
  Then(UpdateSelf(M, bm, self, _indirect_source, log), LAMBDA r :
    IF recursive /\ isinstance(self, "UniqueIdShortNamespace")
    THEN UpdateSets(r.m, bm, self, 1, r.ret)
    ELSE r)

RECURSIVE _direct_source_commit(_, _, _, _)
RECURSIVE DirectCommitItems(_, _, _, _, _)
RECURSIVE DirectCommitSets(_, _, _, _, _)
RECURSIVE CommitLoop(_, _, _, _, _, _)

\* a loop in which every item commits to its ancestors as well
DirectCommitItemsToAncestors(M, bm, items, j, log) ==
  IF j > Len(items) THEN Return(M, log)
  ELSE Then(CommitLoop(M, bm, items[j], ParentOf(M, items[j]),
                       <<M.attrs[items[j]]["id_short"]>>, log), LAMBDA a :
         Then(_direct_source_commit(a.m, bm, items[j], a.ret), LAMBDA r :
           DirectCommitItems(r.m, bm, items, j + 1, r.ret)))

\* for referable in namespace_set: referable._direct_source_commit()
DirectCommitItems(M, bm, items, j, log) ==
  IF j > Len(items) THEN Return(M, log)
  ELSE Then(_direct_source_commit(M, bm, items[j], log), LAMBDA r :
         DirectCommitItems(r.m, bm, items, j + 1, r.ret))

\* for namespace_set in self.namespace_element_sets, set i onwards
DirectCommitSets(M, bm, self, i, log) ==
  IF i > Len(M.nes[self]) THEN Return(M, log)
  ELSE IF "id_short" \notin Range(get_attribute_name_list(M.nes[self][i]))
  THEN DirectCommitSets(M, bm, self, i + 1, log)
  ELSE Then(DirectCommitItems(M, bm, iter(M, M.nes[self][i]), 1, log), LAMBDA r :
         DirectCommitSets(r.m, bm, self, i + 1, r.ret))

\* Referable._direct_source_commit
_direct_source_commit(M, bm, self, log) ==
  Then(IF M.attrs[self]["source"] # <<>>
       THEN BackendCall(M, bm, "commit", self, self, <<>>, log)
       ELSE Return(M, log), LAMBDA r :
    IF isinstance(self, "UniqueIdShortNamespace")
    THEN DirectCommitSets(r.m, bm, self, 1, r.ret)
    ELSE r)

\* a loop that ends at the first ancestor with a source
CommitLoopNearest(M, bm, self, current_ancestor, relative_path, log) ==
  IF current_ancestor = None THEN Return(M, log)
  ELSE IF M.attrs[current_ancestor]["source"] # <<>>
  THEN BackendCall(M, bm, "commit", self, current_ancestor, relative_path, log)
  ELSE CommitLoop(M, bm, self, ParentOf(M, current_ancestor),
                  <<M.attrs[current_ancestor]["id_short"]>> \o relative_path, log)

\* the loop of Referable.commit over the ancestors
CommitLoop(M, bm, self, current_ancestor, relative_path, log) ==
  IF current_ancestor = None THEN Return(M, log)
  ELSE Then(IF M.attrs[current_ancestor]["source"] # <<>>
            THEN BackendCall(M, bm, "commit", self, current_ancestor, relative_path, log)
            ELSE Return(M, log), LAMBDA r :
         CommitLoop(r.m, bm, self, ParentOf(r.m, current_ancestor),
                    <<r.m.attrs[current_ancestor]["id_short"]>> \o relative_path, r.ret))

\* Referable.commit
commit(M, bm, self) ==
  Then(CommitLoop(M, bm, self, ParentOf(M, self), <<M.attrs[self]["id_short"]>>, <<>>),
       LAMBDA r : _direct_source_commit(r.m, bm, self, r.ret))

\* ------------------------------------------------------------- the machine
\* the object graph as one value
Mem == [attrs |-> attrs, parent |-> parent, backend |-> backend, order |-> order,
        nes |-> namespace_element_sets]

\* the call named op on set s with object x ends with result r
Finish(op, s, x, r) ==
  /\ calls < budget
  /\ calls' = calls + 1
  /\ budget' = budget
  /\ attrs' = r.m.attrs
  /\ parent' = r.m.parent
  /\ backend' = r.m.backend
  /\ order' = r.m.order
  /\ namespace_element_sets' = r.m.nes
  /\ _backends_map' = _backends_map
  /\ last' = [op |-> op, set |-> s, arg |-> x, err |-> r.err, ret |-> r.ret]

Constructed(s) == s \in Range(namespace_element_sets[NssParent(s)])

\* the fields an object of each class is constructed with
FieldValues(e) ==
  IF e \in Referables3 THEN [id_short : IdShorts \cup {"c"}, semantic_id : SemanticIds]
  ELSE IF e \in Qualifiers THEN [type : Names, semantic_id : SemanticIds]
  ELSE [name : Names, semantic_id : SemanticIds]

\* the objects of each class with fields of their own
SampleFields ==
  [e \in Elems |->
     CASE e = "r1" -> [id_short |-> "a", semantic_id |-> None]
       [] e = "r2" -> [id_short |-> "b", semantic_id |-> "X"]
       [] e = "r3" -> [id_short |-> "c", semantic_id |-> None]
       [] e = "x1" -> [name |-> "n", semantic_id |-> None]
       [] e = "x2" -> [name |-> "m", semantic_id |-> None]
       [] e = "q1" -> [type |-> "n", semantic_id |-> None]
       [] OTHER -> [type |-> "m", semantic_id |-> None]]

\* item sequences of objects of E without repetition, up to MaxItems long
ItemSeqsOf(E) ==
  UNION {{q \in [1..n -> E] : \A i, j \in 1..n : i # j => q[i] # q[j]} : n \in 0..MaxItems}

ItemSeqs == ItemSeqsOf(Referables)

\* the class of the objects a set is declared to hold
ItemsOf(s) ==
  IF s = "S5" THEN Extensions ELSE IF s = "S6" THEN Qualifiers
  ELSE IF s \in {"S4", "S7", "S8"} THEN Referables3 ELSE Referables

\* the objects before any set exists
Blank(f) ==
  [attrs |-> f,
   parent |-> [e \in Elems |-> None],
   backend |-> [s \in SetIds |-> [a \in AttrNameSet(s) |-> <<>>]],
   order |-> [s \in SetIds |-> <<>>],
   nes |-> [o \in Namespaces |-> <<>>]]

\* the owners construct the sets of the sequence static, set j onwards, each
\* with the item sequence items[j]
RECURSIVE BuildSets(_, _, _, _)
BuildSets(M, static, items, j) ==
  IF j > Len(static) THEN Ok(M)
  ELSE Then(NamespaceSet_init(M, static[j], items[j]), LAMBDA r :
         BuildSets(r.m, static, items, j + 1))

\* the item sequences handed to the constructors of the sets of the
\* sequence static, set j onwards
RECURSIVE ItemChoices(_, _)
ItemChoices(static, j) ==
  IF j > Len(static) THEN {<<>>}
  ELSE {<<q>> \o rest : q \in ItemSeqsOf(ItemsOf(static[j])), rest \in ItemChoices(static, j + 1)}

\* the object graph after a construction that raised nothing: the objects
\* have fields F[e] and the sets of the sequence static are built from them
Constructed0(F, static) ==
  \E f \in F :
    \E items \in ItemChoices(static, 1) :
      /\ \A j \in 1..Len(static) : items[j] \in ItemSeqsOf(ItemsOf(static[j]))
      /\ \E r \in {BuildSets(Blank(f), static, items, 1)} :
           /\ r.err = "ok"
           /\ attrs = r.m.attrs
           /\ parent = r.m.parent
           /\ backend = r.m.backend
           /\ order = r.m.order
           /\ namespace_element_sets = r.m.nes
           /\ last = [op |-> "start", set |-> None, arg |-> None, err |-> "ok", ret |-> None]
           /\ calls = 0

\* the Referables take every combination of fields
ReferableFields ==
  {[e \in Elems |-> IF e \in Referables THEN g[e] ELSE SampleFields[e]] :
     g \in [Referables -> [id_short : IdShorts, semantic_id : SemanticIds]]}

Init == Constructed0(ReferableFields, <<"S1", "S3">>) /\ budget = MaxCalls /\ _backends_map = <<>>

InitUpdate == Constructed0(ReferableFields, <<"S1", "S3">>) /\ budget = MaxCallsUpdate /\ _backends_map = <<>>

InitRename == Constructed0({SampleFields}, <<"S1", "S5", "S6">>) /\ budget = MaxCallsRename /\ _backends_map = <<>>

Add(s, e) ==
  /\ Constructed(s)
  /\ Finish("add", s, e, add(Mem, s, e))

Remove(s, e) ==
  /\ Constructed(s)
  /\ Finish("remove", s, e, remove(Mem, s, e))

Discard(s, e) ==
  /\ Constructed(s)
  /\ Finish("discard", s, e, discard(Mem, s, e))

Pop(s) ==
  /\ Constructed(s)
  /\ Finish("pop", s, None, pop(Mem, s))

Clear(s) ==
  /\ Constructed(s)
  /\ Finish("clear", s, None, clear(Mem, s))

\* indices handed to the ordered set
Indices == (0 - 1)..(MaxItems - 1)

PopIndex(s, i) ==
  /\ Constructed(s) /\ IsOrdered(s)
  /\ Finish("pop_i", s, None, OrderedNamespaceSet_pop_i(Mem, s, i))

Insert(s, i, e) ==
  /\ Constructed(s) /\ IsOrdered(s)
  /\ Finish("insert", s, e, OrderedNamespaceSet_insert(Mem, s, i, e))

SetItem(s, i, e) ==
  /\ Constructed(s) /\ IsOrdered(s)
  /\ Finish("setitem", s, e, OrderedNamespaceSet_setitem_int(Mem, s, i, e))

SetSlice(s, a, b, o) ==
  /\ Constructed(s) /\ IsOrdered(s)
  /\ Finish("setslice", s, o, OrderedNamespaceSet_setitem_slice(Mem, s, a, b, o))

DelItem(s, i) ==
  /\ Constructed(s) /\ IsOrdered(s)
  /\ Finish("delitem", s, None, OrderedNamespaceSet_delitem_int(Mem, s, i))

DelSlice(s, a, b) ==
  /\ Constructed(s) /\ IsOrdered(s)
  /\ Finish("delslice", s, None, OrderedNamespaceSet_delitem_slice(Mem, s, a, b))

\* the values handed to the setters
IdShortInputs == IdShorts \cup {"", "1"}

Construct(s, items) ==
  /\ ~Constructed(s)
  /\ Finish("init", s, None, NamespaceSet_init(Mem, s, items))

SetIdShort(e, v) ==
  /\ "id_short" \in DOMAIN attrs[e]
  /\ Finish("id_short", None, e, _set_id_short(Mem, e, v))

SetSemanticId(e, v) ==
  /\ "semantic_id" \in DOMAIN attrs[e]
  /\ Finish("semantic_id", None, e, semantic_id_setter(Mem, e, v))

SetName(e, v) ==
  /\ "name" \in DOMAIN attrs[e]
  /\ Finish("name", None, e, name_setter(Mem, e, v))

SetType(e, v) ==
  /\ "type" \in DOMAIN attrs[e]
  /\ Finish("type", None, e, type_setter(Mem, e, v))

UpdateNssFrom(s, t) ==
  /\ Constructed(s) /\ Constructed(t) /\ s # t
  /\ Finish("update_nss_from", s, None, update_nss_from(Mem, s, t))

\* the sets that are OrderedNamespaceSets
OrderedSetIds == {s \in SetIds : IsOrdered(s)}

Next ==
  \/ \E s \in SetIds, e \in Referables : Add(s, e)
  \/ \E s \in SetIds, e \in Referables : Remove(s, e)
  \/ \E s \in SetIds, e \in Referables : Discard(s, e)
  \/ \E s \in SetIds : Pop(s)
  \/ \E s \in SetIds : Clear(s)
  \/ \E o \in ItemSeqs : Construct("S2", o)
  \/ \E e \in Referables, v \in IdShortInputs : SetIdShort(e, v)
  \/ \E e \in Referables, v \in SemanticIds : SetSemanticId(e, v)
  \/ \E s \in SetIds, t \in SetIds : UpdateNssFrom(s, t)
  \/ \E s \in OrderedSetIds, i \in Indices : PopIndex(s, i)
  \/ \E s \in OrderedSetIds, i \in Indices, e \in Referables : Insert(s, i, e)
  \/ \E s \in OrderedSetIds, i \in Indices, e \in Referables : SetItem(s, i, e)
  \/ \E s \in OrderedSetIds, a \in 0..MaxItems :
       \E b \in (a + 1)..MaxItems, o \in ItemSeqs : SetSlice(s, a, b, o)
  \/ \E s \in OrderedSetIds, i \in Indices : DelItem(s, i)
  \/ \E s \in OrderedSetIds, a \in 0..MaxItems : \E b \in (a + 1)..MaxItems : DelSlice(s, a, b)

Spec == Init /\ [][Next]_vars

\* reconciliation followed by the calls that move an object between sets
NextUpdate ==
  \/ \E s \in SetIds, t \in SetIds : UpdateNssFrom(s, t)
  \/ \E s \in SetIds : Pop(s)
  \/ \E s \in SetIds : Clear(s)
  \/ \E e \in Referables, v \in IdShortInputs : SetIdShort(e, v)
  \/ \E s \in SetIds, e \in Referables : Add(s, e)

SpecUpdate == InitUpdate /\ [][NextUpdate]_vars

\* the setters, called on the objects of the three sets of one owner, between
\* the calls that put an object into a set or take it out
NextRename ==
  \/ \E e \in Referables, v \in IdShortInputs : SetIdShort(e, v)
  \/ \E e \in Referables, v \in SemanticIds : SetSemanticId(e, v)
  \/ \E e \in Extensions, v \in Names : SetName(e, v)
  \/ \E e \in Qualifiers, v \in Names : SetType(e, v)
  \/ \E s \in SetIds, e \in Referables \cup Extensions \cup Qualifiers : Add(s, e)
  \/ \E s \in SetIds : Pop(s)

SpecRename == InitRename /\ [][NextRename]_vars

\* indices handed to the ordered set of three
IndicesOrdered == (0 - MaxItems)..MaxItems

\* bounds of the slices that are replaced
SliceBounds == 0..(MaxItems + 1)

\* r2 has an id_short of its own or one that differs from that of r1 in case
OrderedFields ==
  {[SampleFields EXCEPT !["r2"]["id_short"] = v] : v \in {"b", "A"}}

InitOrdered ==
  Constructed0(OrderedFields, <<"S1", "S3", "S4">>) /\ budget = MaxCallsOrdered /\ _backends_map = <<>>

\* the calls of the ordered set S4, a sibling of S1, on three Referables of
\* which some are members of the set S3 of another owner
NextOrdered ==
  \/ \E e \in Referables3 : Add("S4", e)
  \/ \E i \in IndicesOrdered, e \in Referables3 : Insert("S4", i, e)
  \/ \E i \in IndicesOrdered, e \in Referables3 : SetItem("S4", i, e)
  \/ \E a \in SliceBounds, b \in SliceBounds, o \in ItemSeqsOf(Referables3) :
       a < b /\ SetSlice("S4", a, b, o)
  \/ \E i \in IndicesOrdered : DelItem("S4", i)
  \/ \E a \in IndicesOrdered, b \in IndicesOrdered : DelSlice("S4", a, b)
  \/ \E i \in IndicesOrdered : PopIndex("S4", i)

SpecOrdered == InitOrdered /\ [][NextOrdered]_vars

\* r2 and r3 take every combination of fields, r1 has those of the sample
ReconcileFields ==
  {[SampleFields EXCEPT !["r2"] = f, !["r3"] = g] :
     f \in [id_short : IdShorts, semantic_id : SemanticIds],
     g \in [id_short : {"b", "c"}, semantic_id : SemanticIds]}

InitReconcile ==
  Constructed0(ReconcileFields, <<"S1", "S7", "S8">>) /\ budget = MaxCallsReconcile /\ _backends_map = <<>>

\* S7 and S8, sets of two owners with the same attributes, are reconciled
\* with one another; S1 is a sibling of S7
NextReconcile ==
  \E s \in {"S7", "S8"}, t \in {"S7", "S8"} : UpdateNssFrom(s, t)

SpecReconcile == InitReconcile /\ [][NextReconcile]_vars

\* the keys of the references that are resolved: the identifier of O1, an
\* identifier the provider does not know, and id_short keys
RefKeys ==
  {[type |-> "Identifiable", value |-> "i1", id_type |-> "IRI"],
   [type |-> "Identifiable", value |-> "i2", id_type |-> "CUSTOM"]}
  \cup {[type |-> "Referable", value |-> v, id_type |-> "IDSHORT"] : v \in {"a", "b", "c"}}

\* the longest key sequence: an element of the set of r3, a member of a set of O1
PathLen == 3

KeySeqs == UNION {[1..n -> RefKeys] : n \in 0..PathLen}

FromReferable(e) ==
  /\ calls = budget - 1
  /\ Finish("from_referable", None, e, from_referable(Mem, e))

Resolve(key, type) ==
  /\ calls = budget - 1
  /\ Finish("resolve", None, [key |-> key, type |-> type], resolve(Mem, [key |-> key, type |-> type]))

InitResolve ==
  Constructed0(OrderedFields, <<"S7", "S9">>) /\ budget = MaxCallsResolve /\ _backends_map = <<>>

\* the sets of O1 and of its member r3 change, then a reference is made or
\* resolved
NextResolve ==
  \/ \E s \in {"S7", "S9"}, e \in Referables : Add(s, e)
  \/ \E s \in {"S7", "S9"}, e \in Referables3 : Remove(s, e)
  \/ \E s \in {"S7", "S9"} : Pop(s)
  \/ \E e \in Referables3, v \in IdShortInputs : SetIdShort(e, v)
  \/ \E e \in Referables3 \cup Identifiables : FromReferable(e)
  \/ \E key \in KeySeqs, type \in {"Referable", "Identifiable"} : Resolve(key, type)

SpecResolve == InitResolve /\ [][NextResolve]_vars

\* three Referables with three different semantic_id values, so that all of
\* them can be members of the set of O1
RoundTripFields ==
  {[SampleFields EXCEPT !["r2"] = [id_short |-> v, semantic_id |-> "Y"],
                        !["r3"]["semantic_id"] = "X"] : v \in {"b", "A"}}

InitRoundTrip ==
  Constructed0(RoundTripFields, <<"S7", "S9">>) /\ budget = MaxCallsRoundTrip /\ _backends_map = <<>>

\* members come to and leave the sets of O1 and of r3, then a reference is made
NextRoundTrip ==
  \/ \E s \in {"S7", "S9"}, e \in Referables : Add(s, e)
  \/ \E s \in {"S7", "S9"}, e \in Referables3 : Remove(s, e)
  \/ \E s \in {"S7", "S9"} : Pop(s)
  \/ \E e \in Referables3 \cup Identifiables : FromReferable(e)

SpecRoundTrip == InitRoundTrip /\ [][NextRoundTrip]_vars

\* the objects that are updated and committed: O1, its member r3 and the
\* Referables
Synced == Referables3 \cup {"O1"}

\* the values of source: none, a locator of scheme f, one of scheme g, and
\* a str that starts with no scheme
SourcesOf(x) ==
  CASE x = "O1" -> {<<>>, <<"f", ":">>}
    [] x = "r3" -> {<<>>, <<"f", ":">>, <<"g", ":">>}
    [] x = "r1" -> {<<>>, <<"g", ":">>, <<"1", ":">>}
    [] OTHER -> {<<>>, <<"g", ":">>}

\* the objects with the sources src: O1 has the id_short "o"
SyncFields ==
  {[e \in Elems \cup {"O1"} |->
      CASE e = "O1" -> [id_short |-> "o", semantic_id |-> None, source |-> src[e]]
        [] e \in Referables3 -> [id_short |-> SampleFields[e]["id_short"],
                                  semantic_id |-> SampleFields[e]["semantic_id"],
                                  source |-> src[e]]
        [] OTHER -> SampleFields[e]] :
     src \in {f \in [Synced -> {<<>>, <<"f", ":">>, <<"g", ":">>, <<"1", ":">>}] :
                \A x \in Synced : f[x] \in SourcesOf(x)}}

\* the registries: both schemes with a working backend, g with a failing
\* one, f with a failing one, and g not registered
SyncRegistries ==
  {register_backend(register_backend(<<>>, <<"f">>, "B1"), <<"g">>, "B1"),
   register_backend(register_backend(<<>>, <<"f">>, "B1"), <<"g">>, "B2"),
   register_backend(register_backend(<<>>, <<"g">>, "B1"), <<"f">>, "B2"),
   register_backend(<<>>, <<"f">>, "B1")}

Update(e, recursive) ==
  /\ "source" \in DOMAIN attrs[e]
  /\ Finish("update", None, <<e, recursive>>, update(Mem, _backends_map, e, recursive, TRUE, <<>>))

Commit(e) ==
  /\ "source" \in DOMAIN attrs[e]
  /\ Finish("commit", None, e, commit(Mem, _backends_map, e))

\* O1 owns the set S6 of one Qualifier and the set S7 of Referables, its
\* member r3 owns the set S9
InitSync ==
  /\ \E f \in SyncFields, q7 \in ItemSeqsOf(ItemsOf("S7")), q9 \in ItemSeqsOf(ItemsOf("S9")) :
       \E r \in {BuildSets(Blank(f), <<"S6", "S7", "S9">>, <<<<"q1">>, q7, q9>>, 1)} :
         /\ r.err = "ok"
         /\ attrs = r.m.attrs
         /\ parent = r.m.parent
         /\ backend = r.m.backend
         /\ order = r.m.order
         /\ namespace_element_sets = r.m.nes
         /\ last = [op |-> "start", set |-> None, arg |-> None, err |-> "ok", ret |-> None]
         /\ calls = 0
  /\ budget = MaxCallsSync
  /\ _backends_map \in SyncRegistries

NextSync ==
  \/ \E e \in Synced, recursive \in BOOLEAN : Update(e, recursive)
  \/ \E e \in Synced : Commit(e)

SpecSync == InitSync /\ [][NextSync]_vars

\* the ordered set S4 of O1 holds up to MaxItems of three Referables, S1 is
\* its sibling; objects are added to S4 and their id_short is set, to a
\* value of the samples or to one that is not allowed
InitReorder ==
  Constructed0(OrderedFields, <<"S1", "S4">>) /\ budget = MaxCallsReorder /\ _backends_map = <<>>

NextReorder ==
  \/ \E e \in Referables3 : Add("S4", e)
  \/ \E e \in Referables3, v \in IdShortInputs \cup {"c"} : SetIdShort(e, v)

SpecReorder == InitReorder /\ [][NextReorder]_vars

\* the ordered set S4 of O1 holds up to MaxItems of three Referables, S1 is
\* its sibling; a member or a slice of S4 is replaced
InitReplace ==
  Constructed0(OrderedFields, <<"S1", "S4">>) /\ budget = MaxCallsReplace /\ _backends_map = <<>>

NextReplace ==
  \/ \E i \in IndicesOrdered, e \in Referables3 : SetItem("S4", i, e)
  \/ \E a \in SliceBounds, b \in SliceBounds, o \in ItemSeqsOf(Referables3) :
       a < b /\ SetSlice("S4", a, b, o)

SpecReplace == InitReplace /\ [][NextReplace]_vars

\* the values of version and revision
AdminValues == {None, "", "1", "2"}

\* the objects and an AdministrativeInformation before its constructor ran
AdminFields ==
  [e \in Elems \cup {"ai"} |->
     IF e = "ai" THEN [version |-> None, revision |-> None] ELSE SampleFields[e]]

SetVersion(version) ==
  Finish("version", None, version, _set_version(Mem, "ai", version))

SetRevision(revision) ==
  Finish("revision", None, revision, _set_revision(Mem, "ai", revision))

\* an AdministrativeInformation whose constructor raised nothing
InitAdmin ==
  /\ \E version \in AdminValues, revision \in AdminValues :
       \E r \in {AdministrativeInformation_init(Blank(AdminFields), "ai", version, revision)} :
         /\ r.err = "ok"
         /\ attrs = r.m.attrs
         /\ parent = r.m.parent
         /\ backend = r.m.backend
         /\ order = r.m.order
         /\ namespace_element_sets = r.m.nes
         /\ last = [op |-> "start", set |-> None, arg |-> None, err |-> "ok", ret |-> None]
         /\ calls = 0
  /\ budget = MaxCallsAdmin
  /\ _backends_map = <<>>

NextAdmin ==
  \/ \E version \in AdminValues : SetVersion(version)
  \/ \E revision \in AdminValues : SetRevision(revision)

SpecAdmin == InitAdmin /\ [][NextAdmin]_vars

\* the values of the keys that are constructed
KeyValues == {"", "v", "w"}

NewKey(type_, value, id_type) ==
  Finish("Key", None, [type |-> type_, value |-> value, id_type |-> id_type],
         Key_init(Mem, type_, value, id_type))

\* get_identifier of the key the last call constructed
GetIdentifier ==
  /\ last.op = "Key" /\ last.err = "ok"
  /\ Finish("get_identifier", None, last.ret, Return(Mem, Key_get_identifier(last.ret)))

InitKey ==
  Constructed0({SampleFields}, <<>>) /\ budget = MaxCallsKey /\ _backends_map = <<>>

\* keys are constructed and asked for their identifier
NextKey ==
  \/ \E type_ \in KeyElements, value \in KeyValues, id_type \in DOMAIN KeyType :
       NewKey(type_, value, id_type)
  \/ GetIdentifier

SpecKey == InitKey /\ [][NextKey]_vars

\* the backend classes that are registered
Backends == {"B1", "B2"}

\* the schemes they are registered for: two schemes, one that holds a
\* character other than a letter, and a str that no locator starts with
Schemes == {<<"f">>, <<"g">>, <<"f", "+">>, <<"1">>}

\* the longest locator
UrlLen == 3

Urls == UNION {[1..n -> Chars] : n \in 0..UrlLen}

RegisterBackend(scheme, backend_class) ==
  /\ calls < budget
  /\ calls' = calls + 1
  /\ budget' = budget
  /\ UNCHANGED <<attrs, parent, backend, order, namespace_element_sets>>
  /\ _backends_map' = register_backend(_backends_map, scheme, backend_class)
  /\ last' = [op |-> "register_backend", set |-> None, arg |-> <<scheme, backend_class>>,
              err |-> "ok", ret |-> None]

GetBackend(url) ==
  /\ calls = budget - 1
  /\ Finish("get_backend", None, url, get_backend(Mem, _backends_map, url))

InitBackends ==
  Constructed0({SampleFields}, <<>>) /\ budget = MaxCallsBackends /\ _backends_map = <<>>

\* backends are registered, then a locator is looked up
NextBackends ==
  \/ \E scheme \in Schemes, b \in Backends : RegisterBackend(scheme, b)
  \/ \E url \in Urls : GetBackend(url)

SpecBackends == InitBackends /\ [][NextBackends]_vars

\* ------------------------------------------------------------ properties
\* the object graph but for the record of the call
graph == <<attrs, parent, backend, order, namespace_element_sets>>

\* the sets registered with owner o
SetsOf(o) == Range(namespace_element_sets[o])

\* upper-case form of a str value, as the metamodel defines matching
Capital(v) ==
  IF v = "a" THEN "A" ELSE IF v = "b" THEN "B" ELSE IF v = "c" THEN "C"
  ELSE IF v = "n" THEN "N" ELSE IF v = "m" THEN "M" ELSE v

\* the key under which set s files value v of attribute a
KeyOf(s, a, v) == IF CaseSensitive(s, a) THEN v ELSE Capital(v)

\* the objects filed in the index of attribute a of set s, in graph (A, B)
Filed(B, s, a) == {B[s][a][i][2] : i \in 1..Len(B[s][a])}

\* object e is filed in the index of attribute a of set s under its own value
FiledAt(A, B, s, a, e) ==
  /\ a \in DOMAIN A[e]
  /\ \E i \in 1..Len(B[s][a]) : B[s][a][i] = <<KeyOf(s, a, A[e][a]), e>>

\* "e in s": e is filed under the first attribute of s
Holds(A, B, s, e) == FiledAt(A, B, s, attribute_names(s)[1].name, e)

\* e is a member of s: it is in s and s belongs to the owner of e
Member(s, e) == Holds(attrs, backend, s, e) /\ parent[e] = NssParent(s)

\* len(s)
Size(B, s) == Len(B[s][attribute_names(s)[1].name])

\* C1: no two distinct members of the sets of one owner have the same value
\* (case-folded where the attribute is case-insensitive) for an attribute
\* that their sets index
C1_UniqueAmongSiblings ==
  \A o \in Namespaces : \A s \in SetsOf(o), t \in SetsOf(o) :
    \A a \in AttrNameSet(s) \cap AttrNameSet(t) :
      \A e1 \in Elems, e2 \in Elems :
        (e1 # e2 /\ Member(s, e1) /\ Member(t, e2) /\ a \in DOMAIN attrs[e1] /\ a \in DOMAIN attrs[e2])
          => KeyOf(s, a, attrs[e1][a]) # KeyOf(s, a, attrs[e2][a])

\* C2: the parent of e is o exactly if some set of o holds e in the index of
\* every attribute the set tracks
C2_ParentIffIndexed ==
  \A e \in Elems : \A o \in Namespaces :
    (parent[e] = o) <=>
      (\E s \in SetsOf(o) : \A a \in AttrNameSet(s) : e \in Filed(backend, s, a))

\* C3: the order sequence of an ordered set has no element twice and holds
\* exactly the elements of the index
C3_OrderMirrorsIndex ==
  \A s \in SetIds :
    (IsOrdered(s) /\ Constructed(s)) =>
      /\ \A i, j \in 1..Len(order[s]) : i # j => order[s][i] # order[s][j]
      /\ \A a \in AttrNameSet(s) : Range(order[s]) = Filed(backend, s, a)
      /\ Len(order[s]) = Size(backend, s)

\* some set of the owner of s files the value of an attribute of e already
ValueTaken(s, e) ==
  \E t \in SetsOf(NssParent(s)) : \E a \in AttrNameSet(t) :
    /\ a \in DOMAIN attrs[e]
    /\ \E i \in 1..Len(backend[t][a]) :
         KeyOf(t, a, backend[t][a][i][1]) = KeyOf(t, a, attrs[e][a])

\* C4: add raises KeyError, and changes nothing, whenever a set of the same
\* owner tracks an attribute of the item and files the item's value already,
\* values that differ in case only being the same for a case-insensitive attribute
C4_AddCollides ==
  [][last'.op = "add"
     => \A s \in SetIds, e \in Elems :
          (last'.set = s /\ last'.arg = e /\ ValueTaken(s, e))
            => (last'.err = "KeyError" /\ UNCHANGED graph)]_vars

\* an add was refused because of a member whose id_short differs in case only
C4_Witness ==
  /\ last.op = "add" /\ last.err = "KeyError"
  /\ \E m \in Referables :
       /\ m # last.arg
       /\ attrs[m]["id_short"] # attrs[last.arg]["id_short"]
       /\ Capital(attrs[m]["id_short"]) = Capital(attrs[last.arg]["id_short"])
       /\ \E t \in SetsOf(NssParent(last.set)) : Member(t, m)
       /\ \A t \in SetsOf(NssParent(last.set)) :
            "semantic_id" \in AttrNameSet(t) => backend[t]["semantic_id"] = <<>>

\* C5: add of an item owned by another namespace raises an error and leaves
\* the item, its parent and every set as they were
C5_AddNeverReparents ==
  [][last'.op = "add"
     => \A s \in SetIds, e \in Elems :
          (last'.set = s /\ last'.arg = e /\ parent[e] # None /\ parent[e] # NssParent(s))
            => (last'.err # "ok" /\ UNCHANGED graph)]_vars

\* an add was refused for the parent alone, the item being a member elsewhere
C5_Witness ==
  /\ last.op = "add" /\ last.err = "ValueError"
  /\ parent[last.arg] # None /\ parent[last.arg] # NssParent(last.set)
  /\ \E t \in SetsOf(parent[last.arg]) : Member(t, last.arg)

\* the first k items of the sequence go in without an error
PrefixAdded(s, items, k) == NamespaceSet_init(Mem, s, SubSeq(items, 1, k)).err = "ok"

\* C6: a construction whose initial items fail to add raises the error,
\* leaves the new set and its order sequence empty and leaves the items
\* added before the failing one without parent
C6_FailedConstructionRollsBack ==
  [][last'.op = "init"
     => \A s \in SetIds, items \in ItemSeqs :
          (last'.set = s /\ Construct(s, items) /\ ~PrefixAdded(s, items, Len(items)))
            => /\ last'.err # "ok"
               /\ \A a \in AttrNameSet(s) : backend'[s][a] = <<>>
               /\ order'[s] = <<>>
               /\ \A k \in 1..Len(items) : PrefixAdded(s, items, k) => parent'[items[k]] = None]_vars

\* a construction failed on a collision although no set of the owner held
\* anything: the second item collided with the first, which had been added
C6_Witness ==
  /\ last.op = "init" /\ last.err = "KeyError"
  /\ \A s \in SetsOf(NssParent(last.set)) : \A a \in AttrNameSet(s) : backend[s][a] = <<>>
  /\ order[last.set] = <<>>
  /\ \A e \in Elems : parent[e] = None

\* the setters and the attribute each writes
Setters == {"id_short", "semantic_id", "name", "type"}

\* some set of the owner of e files value v of attribute a already
ValuePresent(e, a, v) ==
  \E t \in SetsOf(parent[e]) :
    /\ a \in AttrNameSet(t)
    /\ \E i \in 1..Len(backend[t][a]) : backend[t][a][i][1] = KeyOf(t, a, v)

\* the values handed to the setter of attribute a
SetterValues(a) ==
  CASE a = "id_short" -> IdShorts
    [] a = "semantic_id" -> SemanticIds
    [] OTHER -> Names

\* the call the setter of attribute a makes on e with value v
SetterCall(a, e, v) ==
  CASE a = "id_short" -> SetIdShort(e, v)
    [] a = "semantic_id" -> SetSemanticId(e, v)
    [] a = "name" -> SetName(e, v)
    [] OTHER -> SetType(e, v)

\* C7: renaming an indexed attribute of a contained element to a value that
\* an index of its owner holds already raises KeyError and leaves the value,
\* the membership and the parent of the element as they were
C7_FailedRenameChangesNothing ==
  [][\A a \in Setters, e \in Elems, v \in IdShorts \cup SemanticIds \cup Names :
       (last'.op = a /\ last'.arg = e /\ v \in SetterValues(a) /\ SetterCall(a, e, v)
          /\ parent[e] # None /\ v # attrs[e][a] /\ ValuePresent(e, a, v))
         => (last'.err = "KeyError" /\ UNCHANGED graph)]_vars

\* get(attribute_name, value) on set s in graph (B)
Lookup(B, nes, s, a, v) ==
  get([attrs |-> attrs, parent |-> parent, backend |-> B, order |-> order, nes |-> nes], s, a, v)

\* C8: after a successful rename of an indexed attribute of a member, every
\* set that held the member finds it under the new value and nothing under
\* the old one, the member is in the same sets with the same parent, and
\* no set has changed its size
C8_RenameReindexes ==
  [][\A a \in Setters, e \in Elems :
       (last'.op = a /\ last'.arg = e /\ last'.err = "ok"
          /\ attrs'[e][a] # attrs[e][a] /\ \E s \in SetIds : Member(s, e))
         => /\ parent'[e] = parent[e]
            /\ \A s \in SetIds :
                 /\ Size(backend', s) = Size(backend, s)
                 /\ Holds(attrs', backend', s, e) <=> Holds(attrs, backend, s, e)
                 /\ (Holds(attrs, backend, s, e) /\ a \in AttrNameSet(s)) =>
                      /\ Lookup(backend', namespace_element_sets', s, a, attrs'[e][a]) = e
                      /\ Lookup(backend', namespace_element_sets', s, a, attrs[e][a]) = None]_vars

\* the extension x1, a member of S5 next to x2, has been renamed by its
\* setter (writing the name it had would have raised KeyError)
C8_Witness ==
  /\ last.op = "name" /\ last.err = "ok" /\ last.arg = "x1"
  /\ attrs["x1"]["name"] # SampleFields["x1"]["name"]
  /\ Member("S5", "x1") /\ Member("S5", "x2")
  /\ Lookup(backend, namespace_element_sets, "S5", "name", attrs["x1"]["name"]) = "x1"

\* C9: remove of a member clears its parent and takes it out of every index;
\* remove of an object the set does not hold raises KeyError and changes
\* nothing; discard of such an object returns and changes nothing
C9_RemoveAndDiscard ==
  [][\A s \in SetIds, e \in Elems :
       /\ (last'.op = "remove" /\ last'.set = s /\ last'.arg = e /\ Member(s, e))
            => /\ last'.err = "ok"
               /\ parent'[e] = None
               /\ \A a \in AttrNameSet(s) : e \notin Filed(backend', s, a)
       /\ (last'.op = "remove" /\ last'.set = s /\ last'.arg = e /\ ~Holds(attrs, backend, s, e))
            => (last'.err = "KeyError" /\ UNCHANGED graph)
       /\ (last'.op = "discard" /\ last'.set = s /\ last'.arg = e /\ ~Holds(attrs, backend, s, e))
            => (last'.err = "ok" /\ UNCHANGED graph)]_vars

\* C10: pop on a non-empty set returns a member, which afterwards has no
\* parent and is in no index and not in the order sequence of the set, and
\* the set has one member fewer
C10_PopRemovesEverywhere ==
  [][\A s \in SetIds :
       (last'.op = "pop" /\ last'.set = s /\ Size(backend, s) > 0)
         => /\ last'.err = "ok"
            /\ Holds(attrs, backend, s, last'.ret)
            /\ parent'[last'.ret] = None
            /\ \A a \in AttrNameSet(s) : last'.ret \notin Filed(backend', s, a)
            /\ last'.ret \notin Range(order'[s])
            /\ Size(backend', s) = Size(backend, s) - 1]_vars

\* the object graph after the step
MemNext == [attrs |-> attrs', parent |-> parent', backend |-> backend', order |-> order',
            nes |-> namespace_element_sets']

\* e is a member of s in the graph M
MemberIn(M, s, e) == Holds(M.attrs, M.backend, s, e) /\ M.parent[e] = NssParent(s)

\* the calls by which an element leaves a set
LeaveOps == {"remove", "discard", "pop", "clear", "pop_i", "delitem", "delslice",
             "setitem", "setslice"}

\* in the graph M a member other than e of a set of the owner of s has the
\* value of e for an attribute its set indexes
OtherHolds(M, s, e) ==
  \E t \in Range(M.nes[NssParent(s)]) : \E m \in Elems \ {e} : \E a \in AttrNameSet(t) :
    /\ MemberIn(M, t, m)
    /\ a \in DOMAIN M.attrs[e] /\ a \in DOMAIN M.attrs[m]
    /\ KeyOf(t, a, M.attrs[m][a]) = KeyOf(t, a, M.attrs[e][a])

\* C11: an element that has left set s by remove, discard, pop, clear, a
\* deletion or a replacement can be added, by the next call, to the set it
\* left or to a set of another owner, provided no other member of the sets of
\* that owner holds one of its indexed values
C11_LeftElementReusable ==
  [][\A s \in SetIds, t \in SetIds, e \in Elems :
       (/\ last'.op \in LeaveOps /\ last'.set = s /\ last'.err = "ok"
        /\ Member(s, e)
        /\ parent'[e] = None /\ \A u \in SetIds : ~MemberIn(MemNext, u, e)
        /\ t \in Range(namespace_element_sets'[NssParent(t)])
        /\ e \in ItemsOf(t)
        /\ (t = s \/ NssParent(t) # NssParent(s))
        /\ ~OtherHolds(MemNext, t, e))
         => /\ add(MemNext, t, e).err = "ok"
            /\ MemberIn(add(MemNext, t, e).m, t, e)]_vars

\* the item e is refused by the checks of NamespaceSet.add on set s: a set of
\* the owner files one of its values, or it has another owner
Refused(s, e) == ValueTaken(s, e) \/ (parent[e] # None /\ parent[e] # NssParent(s))

\* C12: on an ordered set a successful insert(i, x) with 0 <= i <= len puts x
\* at position i and keeps the order of the other elements, a successful
\* add(x) puts x at the last position; both raise what NamespaceSet.add
\* raises for an item that fails the uniqueness or the parent check and then
\* leave the sequence, and everything else, as it was
C12_InsertAndAddKeepOrder ==
  [][\A s \in SetIds, e \in Referables3 :
       /\ \A i \in 0..Len(order[s]) :
            (last'.op = "insert" /\ last'.set = s /\ last'.arg = e /\ Insert(s, i, e))
              => /\ last'.err = NamespaceSet_add(Mem, s, e).err
                 /\ Refused(s, e) <=> last'.err # "ok"
                 /\ last'.err = "ok" =>
                      /\ order'[s] = SubSeq(order[s], 1, i) \o <<e>> \o SubSeq(order[s], i + 1, Len(order[s]))
                      /\ order'[s][i + 1] = e
                      /\ MemberIn(MemNext, s, e)
                 /\ last'.err # "ok" => UNCHANGED graph
       /\ (last'.op = "add" /\ last'.set = s /\ last'.arg = e /\ IsOrdered(s))
            => /\ last'.err = NamespaceSet_add(Mem, s, e).err
               /\ Refused(s, e) <=> last'.err # "ok"
               /\ last'.err = "ok" =>
                    /\ order'[s] = Append(order[s], e)
                    /\ order'[s][Len(order'[s])] = e
                    /\ MemberIn(MemNext, s, e)
               /\ last'.err # "ok" => UNCHANGED graph]_vars

\* an insert has put its item between two elements the ordered set held
C12_Witness ==
  /\ last.op = "insert" /\ last.err = "ok"
  /\ Len(order[last.set]) = 3
  /\ order[last.set][2] = last.arg
  /\ \A i \in 1..Len(order[last.set]) : Member(last.set, order[last.set][i])

\* e is filed in the index of every attribute of s, with the owner of s as parent
Indexed(M, s, e) ==
  /\ M.parent[e] = NssParent(s)
  /\ \A a \in AttrNameSet(s) : e \in Filed(M.backend, s, a)

\* e is filed in no index of s and has no parent
Gone(M, s, e) ==
  /\ M.parent[e] = None
  /\ \A a \in AttrNameSet(s) : e \notin Filed(M.backend, s, a)

\* C13: after a successful s[a:b] = items the order sequence is old[:a], the
\* items in their order, old[b:]; every item is in the index with the owner
\* as parent and every replaced element is out of the index without parent;
\* after a successful s[i] = x position i holds x and the element that was
\* at i has been removed
C13_ReplacementPlacesItems ==
  [][\A s \in SetIds :
       /\ \A a \in 0..Len(order[s]), b \in 0..Len(order[s]) :
            (/\ last'.op = "setslice" /\ last'.set = s /\ last'.err = "ok"
             /\ a < b /\ Len(last'.arg) <= b - a
             /\ a \in SliceBounds /\ b \in SliceBounds /\ SetSlice(s, a, b, last'.arg))
              => /\ order'[s] = SubSeq(order[s], 1, a) \o last'.arg \o SubSeq(order[s], b + 1, Len(order[s]))
                 /\ \A j \in 1..Len(last'.arg) : Indexed(MemNext, s, last'.arg[j])
                 /\ \A j \in (a + 1)..b :
                      order[s][j] \notin Range(last'.arg) => Gone(MemNext, s, order[s][j])
       /\ \A i \in 0..(Len(order[s]) - 1), x \in Referables3 :
            (/\ last'.op = "setitem" /\ last'.set = s /\ last'.arg = x /\ last'.err = "ok"
             /\ i \in IndicesOrdered /\ SetItem(s, i, x))
              => /\ order'[s][i + 1] = x
                 /\ Len(order'[s]) = Len(order[s])
                 /\ Indexed(MemNext, s, x)
                 /\ order[s][i + 1] # x => Gone(MemNext, s, order[s][i + 1])]_vars

\* the number of items a replacement of the slice [a:b] takes from o
Taken(s, a, b, o) ==
  IF Len(o) < Len(ListSlice(order[s], a, b)) THEN Len(o) ELSE Len(ListSlice(order[s], a, b))

\* C14: a slice replacement one of whose items fails the checks of add raises
\* the error and leaves the set as it was: the index, the order sequence,
\* the replaced elements and their parents, and the items added before the
\* failing one, which are removed again and have no parent
C14_FailedSliceReplacementRollsBack ==
  [][\A s \in SetIds :
       /\ (last'.op = "setslice" /\ last'.set = s /\ last'.err # "ok")
            => /\ UNCHANGED graph
               /\ \A j \in 1..Len(last'.arg) :
                    ~Member(s, last'.arg[j]) => ~MemberIn(MemNext, s, last'.arg[j])
       /\ (last'.op = "setslice" /\ last'.set = s /\ last'.err = "ok")
            => \A a \in SliceBounds, b \in SliceBounds :
                 (a < b /\ SetSlice(s, a, b, last'.arg))
                   => \A j \in 1..Taken(s, a, b, last'.arg) : ~Refused(s, last'.arg[j])]_vars

\* a replacement by two items has failed on the second, a member of the set,
\* after the first, which nothing refuses, had been added
C14_Witness ==
  /\ last.op = "setslice" /\ last.err = "KeyError"
  /\ Len(last.arg) = 2
  /\ Member(last.set, last.arg[2])
  /\ ~Refused(last.set, last.arg[1])
  /\ parent[last.arg[1]] = None
  /\ \A a \in AttrNameSet(last.set) : last.arg[1] \notin Filed(backend, last.set, a)
  /\ Len(order[last.set]) = 2
  /\ \A i \in 1..2 : Member(last.set, order[last.set][i])

\* the list l without the positions lo+1..hi
Without(l, lo, hi) == SubSeq(l, 1, lo) \o SubSeq(l, hi + 1, Len(l))

\* after the step the elements at the positions lo+1..hi of the order
\* sequence of s, and no others, are gone from s
DeletedExactly(s, lo, hi) ==
  /\ last'.err = "ok"
  /\ order'[s] = Without(order[s], lo, hi)
  /\ \A j \in 1..Len(order[s]) :
       IF lo < j /\ j <= hi THEN Gone(MemNext, s, order[s][j])
       ELSE Indexed(Mem, s, order[s][j]) => Indexed(MemNext, s, order[s][j])

\* C15: del s[i] with an index valid for the sequence, counted from the end
\* if negative, and del s[a:b] remove the addressed elements, and no others,
\* from the index and from the order sequence and clear their parents; the
\* other elements keep their order
C15_DeleteRemovesAddressed ==
  [][\A s \in SetIds :
       /\ \A i \in IndicesOrdered :
            (/\ last'.op = "delitem" /\ last'.set = s
             /\ 0 - Len(order[s]) <= i /\ i < Len(order[s])
             /\ \A j \in 1..Len(order[s]) : Indexed(Mem, s, order[s][j])
             /\ DelItem(s, i))
              => IF i < 0 THEN DeletedExactly(s, i + Len(order[s]), i + Len(order[s]) + 1)
                 ELSE DeletedExactly(s, i, i + 1)
       /\ \A a \in IndicesOrdered, b \in IndicesOrdered :
            (/\ last'.op = "delslice" /\ last'.set = s
             /\ \A j \in 1..Len(order[s]) : Indexed(Mem, s, order[s][j])
             /\ DelSlice(s, a, b))
              => DeletedExactly(s, SliceLo(Len(order[s]), a), SliceHi(Len(order[s]), a, b))]_vars

\* the members of set s
Members(s) == {e \in Elems : Member(s, e)}

\* the values the index of attribute a of set s holds, in the graph with dicts B
Keys(B, s, a) == {B[s][a][i][1] : i \in 1..Len(B[s][a])}

\* the members of t that update_nss_from matches with e: those with the
\* id_short of e, case-folded
Matches(t, e) ==
  {m \in Members(t) : Capital(attrs[m]["id_short"]) = Capital(attrs[e]["id_short"])}

\* C16: after self.update_nss_from(other) has returned, the index of every
\* attribute of self holds the values the index of other held before the
\* call; a member of self that matched an element of other by id_short is
\* still a member, with the same parent and now with the fields of that
\* element; a member of self without a match is removed and has no parent
C16_ReconcileTakesValues ==
  [][\A s \in SetIds, t \in SetIds :
       (/\ last'.op = "update_nss_from" /\ last'.set = s /\ last'.err = "ok"
        /\ s # t /\ attribute_names(s) = attribute_names(t)
        /\ UpdateNssFrom(s, t))
         => /\ \A a \in AttrNameSet(s) : Keys(backend', s, a) = Keys(backend, t, a)
            /\ \A e \in Members(s) :
                 IF Matches(t, e) # {}
                 THEN /\ MemberIn(MemNext, s, e)
                      /\ \E m \in Matches(t, e) : attrs'[e] = attrs[m]
                 ELSE Gone(MemNext, s, e)]_vars

\* C17: after self.update_nss_from(other) has returned other is empty: its
\* elements that matched a member of self are discarded from it, the others
\* are members of self with the owner of self as parent
C17_ReconcileEmptiesOther ==
  [][\A s \in SetIds, t \in SetIds :
       (/\ last'.op = "update_nss_from" /\ last'.set = s /\ last'.err = "ok"
        /\ s # t /\ attribute_names(s) = attribute_names(t)
        /\ UpdateNssFrom(s, t))
         => /\ \A a \in AttrNameSet(t) : backend'[t][a] = <<>>
            /\ \A m \in Members(t) :
                 /\ ~MemberIn(MemNext, t, m)
                 /\ IF Matches(s, m) # {} THEN parent'[m] = None
                    ELSE Indexed(MemNext, s, m)]_vars

\* C18: an update_nss_from that raises leaves self, other and the parents
\* and fields of all their elements as they were before the call
C18_FailedReconcileChangesNothing ==
  [][(last'.op = "update_nss_from" /\ last'.err # "ok") => UNCHANGED graph]_vars

\* a key with a global id-kind: its id_type is none of IDSHORT, FRAGMENT_ID
GlobalKey(key) == key.id_type \in {"IRDI", "IRI", "CUSTOM"}

\* C20: resolve of a reference with an empty key sequence raises IndexError,
\* resolve of a reference whose keys are all local (no key has a global
\* id-kind) raises NotImplementedError, and in both cases no identifier has
\* been handed to the provider.
C20_ResolveRefusesBeforeProvider ==
  [][last'.op = "resolve"
     => /\ Len(last'.arg.key) = 0
           => last'.err = "IndexError" /\ last'.ret.asked = <<>>
        /\ (Len(last'.arg.key) > 0 /\ \A i \in 1..Len(last'.arg.key) : ~GlobalKey(last'.arg.key[i]))
           => last'.err = "NotImplementedError" /\ last'.ret.asked = <<>>]_vars

\* a reference of two id_short keys, the first of which names a member of a
\* set of O1, has been refused
C20_Witness ==
  /\ last.op = "resolve"
  /\ Len(last.arg.key) = 2
  /\ \A i \in 1..2 : ~GlobalKey(last.arg.key[i])
  /\ \E e \in Members("S7") : attrs[e]["id_short"] = last.arg.key[1].value
  /\ last.err = "NotImplementedError"

\* the objects found one step below the objects of X: the elements held by a
\* set that indexes id_short and is registered with a namespace of X
Below(X) ==
  {e \in Elems : \E n \in X \cap Namespaces : \E s \in SetsOf(n) :
     "id_short" \in AttrNameSet(s) /\ Holds(attrs, backend, s, e)}

\* the objects reachable from the Identifiables the provider holds
RECURSIVE ReachableIn(_, _)
ReachableIn(X, n) == IF n = 0 THEN X ELSE ReachableIn(X \cup Below(X), n - 1)

Reachable == ReachableIn(Registered, PathLen)

\* C19: when from_referable is applied to an object reachable from a
\* registered Identifiable through sets that index id_short (the Identifiable
\* itself included), it returns a reference, and resolve of that reference
\* with the provider returns the same object.
C19_RoundTrip ==
  [][(last'.op = "from_referable" /\ last'.arg \in Reachable)
     => /\ last'.err = "ok"
        /\ resolve(Mem, last'.ret).err = "ok"
        /\ resolve(Mem, last'.ret).ret.item = last'.arg]_vars

\* the identifier of the last key of the sequence that has one
LastIdentifier(key) == Key_get_identifier(key[last_identifier_index(key)])[1]

\* the provider holds an object with this identifier
Known(identifier) == \E x \in Registered : identification(x) = identifier

\* C21: resolve of a key sequence whose last key with a global id-kind has
\* an identifier the provider does not hold raises KeyError, after the
\* provider was asked for that identifier and nothing else, whatever keys
\* follow it.
C21_UnknownIdentifierNotFound ==
  [][(/\ last'.op = "resolve"
      /\ \E i \in 1..Len(last'.arg.key) : GlobalKey(last'.arg.key[i])
      /\ ~Known(LastIdentifier(last'.arg.key)))
     => /\ last'.err = "KeyError"
        /\ last'.ret.asked = <<LastIdentifier(last'.arg.key)>>
        /\ last'.ret.item = None]_vars

\* a reference whose first key names the Identifiable the provider holds,
\* whose second key has an unknown identifier and whose third key is the
\* id_short of a member of the set of O1 was not found
C21_Witness ==
  /\ last.op = "resolve"
  /\ Len(last.arg.key) = 3
  /\ last.arg.key[1].value = "i1"
  /\ last.arg.key[2].value = "i2"
  /\ \E e \in Members("S7") : attrs[e]["id_short"] = last.arg.key[3].value
  /\ last.err = "KeyError"
  /\ last.ret.asked = <<[id |-> "i2", id_type |-> "CUSTOM"]>>

\* the members of the sets of ns that index id_short whose id_short is v,
\* letter case aside
NamedMembers(ns, v) ==
  {e \in Elems : /\ "id_short" \in DOMAIN attrs[e]
                  /\ Capital(attrs[e]["id_short"]) = Capital(v)
                  /\ \E s \in SetsOf(ns) :
                       "id_short" \in AttrNameSet(s) /\ Holds(attrs, backend, s, e)}

\* where the keys i.. of the sequence lead from item: the element named by
\* the keys, or the first failure on the way
RECURSIVE WalkOutcome(_, _, _)
WalkOutcome(key, item, i) ==
  IF i > Len(key) THEN [err |-> "ok", item |-> item]
  ELSE IF item \notin Namespaces THEN [err |-> "TypeError", item |-> None]
  ELSE IF NamedMembers(item, key[i].value) = {} THEN [err |-> "KeyError", item |-> None]
  ELSE WalkOutcome(key, CHOOSE e \in NamedMembers(item, key[i].value) : TRUE, i + 1)

\* the outcome of the walk of a key sequence whose identifier key is known
Outcome(key) ==
  WalkOutcome(key, CHOOSE x \in Registered : identification(x) = LastIdentifier(key),
              last_identifier_index(key) + 1)

\* resolve has been applied to a key sequence whose identifier the provider holds
ResolvedKnown ==
  /\ last'.op = "resolve"
  /\ \E i \in 1..Len(last'.arg.key) : GlobalKey(last'.arg.key[i])
  /\ Known(LastIdentifier(last'.arg.key))

\* C22: on the keys after the identifier key, resolve raises TypeError when
\* the element reached so far is no namespace and a key remains, and KeyError
\* when it is a namespace none of whose members has the id_short of the next
\* key, letter case aside; the first such key decides the error.
C22_WalkFailsAtFirstBadKey ==
  [][(ResolvedKnown /\ Outcome(last'.arg.key).err # "ok")
     => /\ last'.err = Outcome(last'.arg.key).err
        /\ last'.ret.item = None]_vars

\* a reference of three keys was refused with TypeError at its third key: the
\* second key names a member of the set of O1 that is no namespace
C22_Witness ==
  /\ last.op = "resolve"
  /\ Len(last.arg.key) = 3
  /\ last.arg.key[1].value = "i1"
  /\ \E e \in Members("S7") \ Namespaces : attrs[e]["id_short"] = last.arg.key[2].value
  /\ ~GlobalKey(last.arg.key[3])
  /\ last.err = "TypeError"

\* C23: when the walk reaches an element, resolve returns that element if it
\* is an instance of the type of the reference, and raises UnexpectedTypeError
\* carrying that element if it is not.
C23_TypeCheckedResult ==
  [][(ResolvedKnown /\ Outcome(last'.arg.key).err = "ok")
     => /\ last'.ret.item = Outcome(last'.arg.key).item
        /\ last'.err = IF isinstance(last'.ret.item, last'.arg.type)
                       THEN "ok" ELSE "UnexpectedTypeError"]_vars

\* a reference of type Identifiable led to r3, a member of the set of O1,
\* and was refused with r3 as the value of the error
C23_Witness ==
  /\ last.op = "resolve"
  /\ last.arg.type = "Identifiable"
  /\ Len(last.arg.key) = 2
  /\ "r3" \in Members("S7")
  /\ last.arg.key[2].value = attrs["r3"]["id_short"]
  /\ last.err = "UnexpectedTypeError"
  /\ last.ret.item = "r3"

\* the schemes a locator starts with: the characters before a colon, when the
\* first is a letter and the others are letters, "+", "-" or "."
LeadingScheme(url) ==
  {SubSeq(url, 1, i - 1) : i \in {k \in 2..Len(url) :
      /\ url[k] = ":"
      /\ url[1] \in Letters
      /\ \A j \in 1..(k - 1) : url[j] \in SchemeChars}}

\* what a lookup gives: the error and the backend
BackendFor(bm, url) == <<get_backend(Mem, bm, url).err, get_backend(Mem, bm, url).ret>>

\* C30: after any sequence of register_backend calls, get_backend(locator)
\* returns the backend most recently registered for the scheme the locator
\* starts with, and fails, returning no backend, when the locator starts with
\* no scheme or no backend was registered for exactly that scheme: a
\* registration makes every locator of its scheme give its backend and leaves
\* the lookups of the other locators as they were, and a lookup fails exactly
\* when the locator has no scheme or the registry has no entry for it
C30_GetBackendLatestOrFails ==
  [][/\ last'.op = "register_backend" =>
          \A url \in Urls :
            IF last'.arg[1] \in LeadingScheme(url)
            THEN BackendFor(_backends_map', url) = <<"ok", last'.arg[2]>>
            ELSE BackendFor(_backends_map', url) = BackendFor(_backends_map, url)
     /\ last'.op = "get_backend" =>
          /\ _backends_map' = _backends_map
          /\ IF LeadingScheme(last'.arg) = {}
             THEN last'.err = "ValueError" /\ last'.ret = None
             ELSE IF \A sch \in LeadingScheme(last'.arg) : sch \notin DictKeys(_backends_map)
             THEN last'.err = "KeyError" /\ last'.ret = None
             ELSE last'.err = "ok" /\ last'.ret \in Backends]_vars

\* a lookup of a locator whose scheme was registered twice gives a backend
C30_Witness ==
  /\ last.op = "get_backend"
  /\ last.arg = <<"f", "+", ":">>
  /\ last.err = "ok"
  /\ last.ret = "B2"
  /\ calls = 3
  /\ Len(_backends_map) = 1

\* the object n parent links above x, None when the chain ends before
RECURSIVE Up(_, _)
Up(x, n) ==
  IF n = 0 \/ x = None THEN x ELSE Up(IF x \in DOMAIN parent THEN parent[x] ELSE None, n - 1)

HasSource(x) == attrs[x]["source"] # <<>>

\* the numbers of parent links from e to its proper ancestors with a source
SourceLevels(e) == {n \in 1..Cardinality(Synced) : Up(e, n) # None /\ HasSource(Up(e, n))}

\* the id_shorts from the ancestor n links above e down to e
PathFrom(e, n) == [i \in 1..(n + 1) |-> attrs[Up(e, n + 1 - i)]["id_short"]]

\* the backend class the registry gives for the source of x, None when the
\* lookup fails
ClassFor(x) ==
  IF BackendFor(_backends_map, attrs[x]["source"])[1] = "ok"
  THEN BackendFor(_backends_map, attrs[x]["source"])[2] ELSE None

\* the call of the log entry c has these arguments and went to the backend
\* of the source of store
IsCall(c, op, object, store, path) ==
  /\ c.op = op /\ c.object = object /\ c.store = store /\ c.path = path
  /\ c.backend = ClassFor(store)

\* C24: a non-recursive update() of an element makes at most one backend
\* update call: with a source of its own the call is (element, element,
\* empty path); otherwise the call goes to the backend of the nearest
\* ancestor A with a source, with (element, A, the id_shorts along the
\* parent chain from A down to the element); with no source on the parent
\* chain no backend is called and update() returns normally.
C24_UpdateFromNearestSource ==
  [][(last'.op = "update" /\ ~last'.arg[2])
     => /\ Len(last'.ret) <= 1
        /\ IF HasSource(last'.arg[1])
           THEN /\ Len(last'.ret) = 1
                /\ IsCall(last'.ret[1], "update", last'.arg[1], last'.arg[1], <<>>)
           ELSE IF SourceLevels(last'.arg[1]) # {}
           THEN \E n \in SourceLevels(last'.arg[1]) :
                  /\ \A k \in SourceLevels(last'.arg[1]) : n <= k
                  /\ Len(last'.ret) = 1
                  /\ IsCall(last'.ret[1], "update", last'.arg[1], Up(last'.arg[1], n),
                            PathFrom(last'.arg[1], n))
           ELSE last'.ret = <<>> /\ last'.err = "ok"]_vars

\* r1, with no source, in the set of r3, with no source, in the set of O1,
\* whose source has a backend, was updated from O1
C24_Witness ==
  /\ last.op = "update" /\ last.arg = <<"r1", FALSE>>
  /\ parent["r1"] = "r3" /\ parent["r3"] = "O1"
  /\ ~HasSource("r1") /\ ~HasSource("r3")
  /\ last.err = "ok"
  /\ last.ret = <<[op |-> "update", object |-> "r1", store |-> "O1",
                   path |-> <<"o", "c", "a">>, backend |-> "B1", err |-> "ok"]>>

\* the objects held, directly or through other objects, in the sets of e
\* that index id_short
Descendants(e) == ReachableIn({e}, Cardinality(Synced)) \ {e}

\* the number of calls update makes for e itself
OwnUpdates(e) == IF HasSource(e) \/ SourceLevels(e) # {} THEN 1 ELSE 0

\* the entry c is the update of e itself: from e when it has a source,
\* from its nearest ancestor with a source otherwise
IsOwnUpdate(c, e) ==
  IF HasSource(e) THEN IsCall(c, "update", e, e, <<>>)
  ELSE \E n \in SourceLevels(e) :
         /\ \A k \in SourceLevels(e) : n <= k
         /\ IsCall(c, "update", e, Up(e, n), PathFrom(e, n))

\* the calls of a recursive update of e, as the code makes them: first the
\* update of e itself, then one call (d, d, empty path) for descendants d
\* with a source of their own and nothing for the others; every such
\* descendant has its call when update returns normally
RecursiveUpdateLog(e, log, err) ==
  /\ Len(log) >= OwnUpdates(e) \/ (err # "ok" /\ log = <<>>)
  /\ OwnUpdates(e) = 1 /\ log # <<>> => IsOwnUpdate(log[1], e)
  /\ \A i \in (OwnUpdates(e) + 1)..Len(log) :
       \E d \in Descendants(e) : HasSource(d) /\ IsCall(log[i], "update", d, d, <<>>)
  /\ \A i, j \in 1..Len(log) : i # j => log[i].object # log[j].object
  /\ err = "ok" => \A d \in Descendants(e) : HasSource(d) => \E i \in 1..Len(log) : log[i].object = d

\* C25 as amended: update(recursive=true) of an element, after updating the
\* element itself, updates every descendant held in sets that index id_short
\* that has a source of its own, from itself; a descendant with an empty
\* source causes no backend call of its own.
C25_RecursiveUpdateOwnSources ==
  [][(last'.op = "update" /\ last'.arg[2])
     => RecursiveUpdateLog(last'.arg[1], last'.ret, last'.err)]_vars

\* the recursive update of O1, which has a source, with r3 without a source
\* in its set and r1 with a source in the set of r3, called the backends for
\* O1 and r1 only
C25_Witness ==
  /\ last.op = "update" /\ last.arg = <<"O1", TRUE>>
  /\ HasSource("O1") /\ ~HasSource("r3") /\ HasSource("r1")
  /\ "r3" \in Below({"O1"}) /\ "r1" \in Below({"r3"})
  /\ last.err = "ok"
  /\ Len(last.ret) = 2
  /\ last.ret[1].object = "O1" /\ last.ret[2].object = "r1"

\* C25 as stated: update(recursive=true) of an element updates every
\* descendant held in sets that index id_short, each from its own nearest
\* source: a descendant with a source from itself, a descendant with an empty
\* source from its nearest ancestor that has a source.
C25_ChildrenUpdatedFromNearestSource ==
  [][(last'.op = "update" /\ last'.arg[2] /\ last'.err = "ok")
     => \A d \in Descendants(last'.arg[1]) :
          (HasSource(d) \/ SourceLevels(d) # {})
          => \E i \in 1..Len(last'.ret) : IsOwnUpdate(last'.ret[i], d)]_vars

\* the entry c is a commit of e with store owner A, sent to the backend of
\* the source of A
IsCommitTo(c, e, A) ==
  c.op = "commit" /\ c.object = e /\ c.store = A /\ c.backend = ClassFor(A)

\* the ancestor of e with a source that has i - 1 such ancestors below it
NthSourceAncestor(e, i) ==
  Up(e, CHOOSE n \in SourceLevels(e) : Cardinality({k \in SourceLevels(e) : k < n}) = i - 1)

\* the number of commits of e itself: to the ancestors and its own source
OwnCommits(e) == Cardinality(SourceLevels(e)) + (IF HasSource(e) THEN 1 ELSE 0)

\* the commits of e itself in the log: first one for every proper ancestor
\* with a source, nearest first, then one to the source of e with an empty
\* path; all of them are there when commit returns normally
CommitsOfSelf(e, log, err) ==
  /\ err = "ok" => Len(log) >= OwnCommits(e)
  /\ \A i \in 1..Len(log) :
       /\ i <= Cardinality(SourceLevels(e)) => IsCommitTo(log[i], e, NthSourceAncestor(e, i))
       /\ (i = Cardinality(SourceLevels(e)) + 1 /\ HasSource(e))
          => IsCommitTo(log[i], e, e) /\ log[i].path = <<>>
       /\ i > OwnCommits(e) => log[i].object # e

\* C26: commit() of an element invokes a backend commit exactly once for
\* every proper ancestor that has a source, from the nearest ancestor to the
\* root, each with that ancestor as store owner and the element as committed
\* object; only after all ancestors, if the element has a source of its own,
\* it commits to that source with an empty relative path.
C26_CommitToEveryAncestor ==
  [][last'.op = "commit" => CommitsOfSelf(last'.arg, last'.ret, last'.err)]_vars

\* r1 in the set of r3 in the set of O1, all three with a source, was
\* committed to r3, then to O1, then to its own source
C26_Witness ==
  /\ last.op = "commit" /\ last.arg = "r1" /\ last.err = "ok"
  /\ parent["r1"] = "r3" /\ parent["r3"] = "O1"
  /\ HasSource("r1") /\ HasSource("r3") /\ HasSource("O1")
  /\ Len(last.ret) = 3
  /\ last.ret[1].store = "r3" /\ last.ret[2].store = "O1" /\ last.ret[3].store = "r1"

\* the number of parent links from e to NthSourceAncestor(e, i)
NthSourceLevel(e, i) ==
  CHOOSE n \in SourceLevels(e) : Cardinality({k \in SourceLevels(e) : k < n}) = i - 1

\* C27: in commit(), the relative path passed for an ancestor A with a
\* source is the sequence of id_shorts that starts with the id_short of A and
\* continues down the parent chain to the committed element.
C27_CommitPathFromOwner ==
  [][last'.op = "commit"
     => \A i \in 1..Len(last'.ret) :
          i <= Cardinality(SourceLevels(last'.arg))
          => last'.ret[i].path = PathFrom(last'.arg, NthSourceLevel(last'.arg, i))]_vars

\* the objects of the subtree of e, e included, that have a source
SourcesBelow(e) == {d \in Descendants(e) \cup {e} : HasSource(d)}

\* the commits of the descendants of e in the log: one call (d, d, empty
\* path) for descendants d with a source, none for the others and none to
\* the source of e or of an ancestor
CommitsOfDescendants(e, log, err) ==
  /\ \A i \in 1..Len(log) :
       log[i].object \in Descendants(e)
       => /\ HasSource(log[i].object)
          /\ IsCall(log[i], "commit", log[i].object, log[i].object, <<>>)
  /\ \A i, j \in 1..Len(log) :
       (i # j /\ log[i].object \in Descendants(e)) => log[i].object # log[j].object
  /\ \A i \in 1..Len(log) : log[i].object \in Descendants(e) \cup {e}
  /\ err = "ok" => Len(log) = Cardinality(SourceLevels(e)) + Cardinality(SourcesBelow(e))

\* C28: during commit() of an element e, a descendant d held in sets that
\* index id_short causes a backend commit only if d has a source of its own,
\* and that call has committed object d, store owner d and an empty path; no
\* descendant is committed to the source of e or of an ancestor, so the
\* number of backend commits is the number of proper ancestors of e with a
\* source plus the number of objects with a source in the subtree of e.
C28_DescendantsCommitOwnSource ==
  [][last'.op = "commit" => CommitsOfDescendants(last'.arg, last'.ret, last'.err)]_vars

\* r3 in the set of O1, which has a source, holds r1 with a source and r2
\* without one: its commit called the backend of O1 for r3 and the backend
\* of r1 for r1
C28_Witness ==
  /\ last.op = "commit" /\ last.arg = "r3" /\ last.err = "ok"
  /\ parent["r3"] = "O1" /\ HasSource("O1") /\ ~HasSource("r3")
  /\ Below({"r3"}) = {"r1", "r2"} /\ HasSource("r1") /\ ~HasSource("r2")
  /\ Len(last.ret) = 2
  /\ last.ret[1].object = "r3" /\ last.ret[1].store = "O1"
  /\ last.ret[2].object = "r1" /\ last.ret[2].store = "r1" /\ last.ret[2].path = <<>>

\* how a backend call for the source of store ends: with the error of the
\* lookup, with the error of a failing backend class, or normally
CallOutcome(store) ==
  IF BackendFor(_backends_map, attrs[store]["source"])[1] # "ok"
  THEN BackendFor(_backends_map, attrs[store]["source"])[1]
  ELSE IF BackendFor(_backends_map, attrs[store]["source"])[2] = "B2" THEN "BackendError"
  ELSE "ok"

\* C29: if a backend call fails during update() or commit(), the lookup of
\* the backend for a source included, the error reaches the caller unchanged
\* and no further backend call is made in that invocation: the failed call is
\* the last one attempted, and update() or commit() raises its error.
C29_FirstFailureAborts ==
  [][last'.op \in {"update", "commit"}
     => /\ \A i \in 1..Len(last'.ret) :
             /\ last'.ret[i].err = CallOutcome(last'.ret[i].store)
             /\ last'.ret[i].err # "ok" => i = Len(last'.ret) /\ last'.err = last'.ret[i].err
        /\ last'.err # "ok" => last'.ret # <<>>]_vars

\* the commit of r1, which has a source, below r3 and O1, which have sources,
\* ended with the KeyError of the lookup for the source of r3 and made no
\* other call
C29_Witness ==
  /\ last.op = "commit" /\ last.arg = "r1"
  /\ parent["r1"] = "r3" /\ parent["r3"] = "O1"
  /\ HasSource("r1") /\ HasSource("r3") /\ HasSource("O1")
  /\ last.err = "KeyError"
  /\ Len(last.ret) = 1
  /\ last.ret[1].store = "r3" /\ last.ret[1].backend = None

\* the id-kinds that are global
GlobalKinds == {"IRDI", "IRI", "CUSTOM"}

\* C31: for every successfully constructed Key, get_identifier() returns an
\* Identifier with the key's value and the identifier type of the same name
\* if and only if the key's id-kind is IRDI, IRI or CUSTOM, and returns none
\* for IDSHORT and FRAGMENT_ID.
C31_IdentifierIffGlobalKind ==
  [][last'.op = "get_identifier"
     => IF last'.arg.id_type \in GlobalKinds
        THEN last'.ret = <<[id |-> last'.arg.value, id_type |-> last'.arg.id_type]>>
        ELSE last'.ret = <<>>]_vars

\* a SUBMODEL key with the id-kind CUSTOM gave the CUSTOM identifier
C31_Witness ==
  /\ last.op = "get_identifier"
  /\ last.arg = [type |-> "SUBMODEL", value |-> "v", id_type |-> "CUSTOM"]
  /\ last.ret = <<[id |-> "v", id_type |-> "CUSTOM"]>>

\* the key is a global reference or an administration shell key with a
\* local id-kind
LocalKindRefused(key) ==
  key.type \in {"GLOBAL_REFERENCE", "ASSET_ADMINISTRATION_SHELL"} /\ key.id_type \in {"IDSHORT", "FRAGMENT_ID"}

\* the constraint a refused key violates
ConstraintOf(key) == IF key.type = "GLOBAL_REFERENCE" THEN 80 ELSE 81

C33_RevisionRequiresVersion ==
  "ai" \in DOMAIN attrs => (attrs["ai"]["revision"] # None => attrs["ai"]["version"] # None)

\* C34: a construction of a NamespaceSet or OrderedNamespaceSet that fails
\* during its initial bulk insert leaves the owner's list of registered sets,
\* namespace_element_sets, exactly as it was before the call.
C34_FailedConstructionNotRegistered ==
  [][(last'.op = "init" /\ last'.err # "ok")
     => namespace_element_sets' = namespace_element_sets]_vars

\* C35: a failed add(item), whatever the cause (a collision, an item owned
\* by a different namespace, an item lacking one of the attributes the set
\* tracks), leaves the item's parent, every index of every set of the owner
\* and the order sequence of an ordered set exactly as before the call.
C35_FailedAddChangesNothing ==
  [][(last'.op = "add" /\ last'.err # "ok")
     => parent' = parent /\ backend' = backend /\ order' = order]_vars

\* x and y have the same value, case-folded where the index is, of an
\* attribute that s tracks
SameValue(s, x, y) ==
  \E a \in AttrNameSet(s) :
    /\ a \in DOMAIN attrs[x] /\ a \in DOMAIN attrs[y]
    /\ KeyOf(s, a, attrs[x][a]) = KeyOf(s, a, attrs[y][a])

\* the position that s[i] addresses, counted from the end if i is negative
Position(s, i) == IF i < 0 THEN i + Len(order[s]) ELSE i

\* the step is a replacement on s that raised the collision error and left
\* everything as it was
RejectedUnchanged == last'.err = "KeyError" /\ UNCHANGED graph

\* the step is s[i] = x on an ordered set, for an x with the value of the
\* element at i
ReplacesItemOfSameValue(i) ==
  /\ Position(last'.set, i) \in 0..(Len(order[last'.set]) - 1)
  /\ SameValue(last'.set, last'.arg, order[last'.set][Position(last'.set, i) + 1])
  /\ SetItem(last'.set, i, last'.arg)

\* C36 as stated: in s[i] = x and s[a:b] = items every replacement element
\* is validated and added while the replaced elements are still indexed: a
\* replacement element with the value of a replaced element is rejected with
\* the collision error and the set is left unchanged
C36_EveryReplacementValidatedFirst ==
  [][/\ last'.op = "setitem"
          => \A i \in IndicesOrdered : ReplacesItemOfSameValue(i) => RejectedUnchanged
     /\ last'.op = "setslice"
          => \A a \in SliceBounds, b \in SliceBounds :
               (/\ a < b
                /\ \E j \in 1..Len(last'.arg), d \in Range(ListSlice(order[last'.set], a, b)) :
                     SameValue(last'.set, last'.arg[j], d)
                /\ SetSlice(last'.set, a, b, last'.arg))
                 => RejectedUnchanged]_vars

\* C36, amended: the replacement elements that are taken, the single item or
\* the first len(s[a:b]) items, are added in their order while the replaced
\* elements are still indexed: a taken element with the value of a replaced
\* element, every taken element before it having been added, is rejected
\* with the collision error and the set is left unchanged
C36_TakenReplacementsValidatedFirst ==
  [][/\ last'.op = "setitem"
          => \A i \in IndicesOrdered : ReplacesItemOfSameValue(i) => RejectedUnchanged
     /\ last'.op = "setslice"
          => \A a \in SliceBounds, b \in SliceBounds :
               (/\ a < b
                /\ \E j \in 1..Taken(last'.set, a, b, last'.arg),
                       d \in Range(ListSlice(order[last'.set], a, b)) :
                     /\ SameValue(last'.set, last'.arg[j], d)
                     /\ SliceAdd(Mem, last'.set, SubSeq(last'.arg, 1, j - 1), 1).err = "ok"
                /\ SetSlice(last'.set, a, b, last'.arg))
                 => RejectedUnchanged]_vars

\* a replacement of the only member of the set by another element, one with
\* the member's value in another case, has been rejected
C36_Witness ==
  /\ last.op \in {"setitem", "setslice"} /\ last.err = "KeyError"
  /\ Len(order[last.set]) = 1
  /\ Member(last.set, order[last.set][1])
  /\ \E x \in Elems :
       /\ x = (IF last.op = "setitem" THEN last.arg ELSE last.arg[1])
       /\ x # order[last.set][1]
       /\ attrs[x]["id_short"] # attrs[order[last.set][1]]["id_short"]
       /\ SameValue(last.set, x, order[last.set][1])
       /\ parent[x] = None

\* the position of the last key of the sequence with a global id-kind
LastGlobal(key) ==
  CHOOSE i \in 1..Len(key) :
    GlobalKey(key[i]) /\ \A j \in (i + 1)..Len(key) : ~GlobalKey(key[j])

\* the keys of the sequence from its last global key on
FromLastGlobal(key) == SubSeq(key, LastGlobal(key), Len(key))

\* the identifier the last global key holds
StartIdentifier(key) == [id |-> key[LastGlobal(key)].value, id_type |-> key[LastGlobal(key)].id_type]

\* C37: resolve starts from the element the provider returns for the last key
\* with a global id-kind; the keys before that key have no effect on the
\* outcome, and the result is the element reached by following the keys after
\* it, one id_short lookup for each key in forward order.
C37_ResolveFromLastGlobalKey ==
  [][(last'.op = "resolve" /\ \E i \in 1..Len(last'.arg.key) : GlobalKey(last'.arg.key[i]))
     => /\ last'.ret.asked = <<StartIdentifier(last'.arg.key)>>
        /\ last'.err = resolve(Mem, [last'.arg EXCEPT !.key = FromLastGlobal(@)]).err
        /\ last'.ret = resolve(Mem, [last'.arg EXCEPT !.key = FromLastGlobal(@)]).ret
        /\ last'.err = "ok"
             => /\ \E x \in Registered : identification(x) = StartIdentifier(last'.arg.key)
                /\ last'.ret.item =
                     WalkOutcome(last'.arg.key,
                                 CHOOSE x \in Registered : identification(x) = StartIdentifier(last'.arg.key),
                                 LastGlobal(last'.arg.key) + 1).item]_vars

\* a reference whose first key holds an identifier the provider does not
\* know, whose second key holds the identifier of O1 and whose third key is
\* the id_short of a member of the set of O1 was resolved to that member
C37_Witness ==
  /\ last.op = "resolve" /\ last.err = "ok"
  /\ Len(last.arg.key) = 3
  /\ last.arg.key[1].value = "i2"
  /\ last.arg.key[2].value = "i1"
  /\ ~GlobalKey(last.arg.key[3])
  /\ last.ret.item \in Members("S7")
  /\ Capital(attrs[last.ret.item]["id_short"]) = Capital(last.arg.key[3].value)
  /\ last.ret.asked = <<identification("O1")>>

\* C38: a successful rename of a member of an ordered set keeps the member
\* at its position in the order sequence and the other members at theirs.
C38_RenameKeepsPosition ==
  [][(last'.op = "id_short" /\ last'.err = "ok")
     => \A s \in SetIds : IsOrdered(s) => order'[s] = order[s]]_vars

\* C40: a rename of the id_short of a contained element fails with the
\* collision error only when another element of the sets of the owner holds
\* the new value, letter case aside; a rename to a value that differs from
\* the element's own id_short in letter case only succeeds.
C40_RenameCollidesWithOthersOnly ==
  [][\A v \in IdShortInputs \cup {"c"} :
       (last'.op = "id_short" /\ SetIdShort(last'.arg, v) /\ parent[last'.arg] # None)
         => /\ last'.err = "KeyError"
                 => \E e \in Elems \ {last'.arg} :
                      /\ "id_short" \in DOMAIN attrs[e]
                      /\ Capital(attrs[e]["id_short"]) = Capital(v)
                      /\ \E s \in SetsOf(parent[last'.arg]) :
                           "id_short" \in AttrNameSet(s) /\ Holds(attrs, backend, s, e)
            /\ (v # attrs[last'.arg]["id_short"] /\ Capital(v) = Capital(attrs[last'.arg]["id_short"]))
                 => /\ last'.err = "ok"
                    /\ attrs'[last'.arg]["id_short"] = v
                    /\ \A s \in SetsOf(parent[last'.arg]) :
                         Holds(attrs, backend, s, last'.arg) => Holds(attrs', backend', s, last'.arg)]_vars

\* the backend calls that update() of e would make in the present graph
UpdateLogOf(e) == update(Mem, _backends_map, e, FALSE, TRUE, <<>>).ret

\* C39: for the same element and the same ancestor with a source as store
\* owner, update() and commit() pass the same relative path of id_shorts to
\* the backend.
C39_UpdateAndCommitSamePath ==
  [][last'.op = "commit"
     => \A i \in 1..Len(last'.ret), j \in 1..Len(UpdateLogOf(last'.arg)) :
          (/\ last'.ret[i].object = last'.arg
           /\ UpdateLogOf(last'.arg)[j].object = last'.arg
           /\ last'.ret[i].store = UpdateLogOf(last'.arg)[j].store)
          => last'.ret[i].path = UpdateLogOf(last'.arg)[j].path]_vars

====
